---------------------------- MODULE Spec2Model ----------------------------
(***************************************************************************)
(* Roulette experiment: the mini-block outcome matrix generator and the    *)
(* trial sequence builder of miniBlockGenerator.js.                        *)
(*                                                                         *)
(* Arrays are functions on 0..n-1, as the code indexes them.  Math.random  *)
(* is a value k/RandomGrid with k in 0..RandomGrid-1; only the numerator   *)
(* k is kept, and Math.floor(Math.random() * n) is (k * n) \div RandomGrid.*)
(***************************************************************************)
EXTENDS Integers, Sequences, FiniteSets, TLC

VARIABLES
    pc,                 \* position of the running function
    attempt,            \* generateMiniBlocks: loop counter `attempt`
    validated,          \* generateMiniBlocks: value of the last validateMiniBlocks(permutedMatrix)
    result,             \* generateMiniBlocks: returned matrix, NoMatrix before the return
    warned,             \* generateMiniBlocks: console.warn was called
    permuteCall,        \* a call of one function of the script: its arguments, then what it did
    numMiniBlocks,      \* generateTrialSequence: argument numMiniBlocks
    miniBlockMatrix,    \* generateTrialSequence: const miniBlockMatrix
    mb,                 \* generateTrialSequence: loop counter `mb`
    trialsByMiniBlock,  \* generateTrialSequence: array trialsByMiniBlock (a sequence)
    reordered,          \* number of shuffle() calls so far that changed the order
    random,             \* createBaseWheelPattern: closure variable `random` of the latest call
    firstCall,          \* the first createBaseWheelPattern call: its argument and its result
    lastCall,           \* the latest wheel function call: its arguments and its result
    phase,              \* view: ref phase
    animationsEnabled,  \* view: ref animationsEnabled
    currentMiniBlock,   \* view: ref currentMiniBlock
    currentSubBlock,    \* view: ref currentSubBlock
    currentTrialInSubBlock, \* view: ref currentTrialInSubBlock
    selectedWheel,      \* view: ref selectedWheel
    confidenceRating,   \* view: ref confidenceRating
    agencySatisfaction, \* view: ref agencySatisfaction
    noAgencySatisfaction, \* view: ref noAgencySatisfaction
    isApproved,         \* view: ref isApproved
    results,            \* view: ref results
    spinComplete,       \* view: ref spinComplete
    recorded,           \* the arguments of the api.recordData calls, in order
    persist,            \* api.persist: trialsByMiniBlock and miniBlockMatrix
    targetRotation,     \* spin-phase wheel: ref targetRotation
    timerPending,       \* spin-phase wheel: its setTimeout has not fired yet
    transitionRunning,  \* spin-phase wheel: a transform transition of the pointer is running
    toolCall            \* view: the latest call of autofill or downloadResults and how it ended

genVars == <<attempt, validated, result, warned, permuteCall>>
seqVars == <<numMiniBlocks, miniBlockMatrix, mb, trialsByMiniBlock, reordered>>
wheelVars == <<random, firstCall, lastCall>>
viewVars == <<phase, animationsEnabled, currentMiniBlock, currentSubBlock,
              currentTrialInSubBlock, selectedWheel, confidenceRating,
              agencySatisfaction, noAgencySatisfaction, isApproved, results,
              spinComplete, recorded, persist, targetRotation, timerPending,
              transitionRunning, toolCall>>
uiVars == <<wheelVars, viewVars>>
vars == <<pc, attempt, validated, result, warned, permuteCall,
          numMiniBlocks, miniBlockMatrix, mb, trialsByMiniBlock, reordered,
          random, firstCall, lastCall,
          phase, animationsEnabled, currentMiniBlock, currentSubBlock,
          currentTrialInSubBlock, selectedWheel, confidenceRating,
          agencySatisfaction, noAgencySatisfaction, isApproved, results,
          spinComplete, recorded, persist, targetRotation, timerPending,
          transitionRunning, toolCall>>

---------------------------------------------------------------------------
(* Bounds of the model *)

\* Math.random() takes the values k / RandomGrid, k in 0..RandomGrid-1.  With
\* RandomGrid >= 5 every swap index 0..i of a 5-element shuffle is drawn.
RandomGrid == 5

\* The number of distinct orders the external shuffle() is let to return
\* for a 4-trial block (the first NumShuffleOutcomes of ShuffleOrders).
NumShuffleOutcomes == 2

\* generateTrialSequence(N) is called with N up to MaxNumMiniBlocks.
MaxNumMiniBlocks == 7

\* At most MaxReordered of the shuffle() calls of one generateTrialSequence
\* call return a changed order; the others return the order they were given.
MaxReordered == 1

---------------------------------------------------------------------------
(* Program constants *)

maxAttempts == 1000
numRows == 4
numCols == 5
defaultNumMiniBlocks == 5

Rows == 0 .. (numRows - 1)
Cols == 0 .. (numCols - 1)

NoMatrix == "none"
\* the value `undefined`, kept apart from the 0 and 1 a matrix holds
Undefined == -1

\* Array(n).fill(v)
ArrayFill(n, v) == [i \in 0 .. (n - 1) |-> v]

\* [...a, ...b]
ArrayConcat(a, na, b, nb) ==
    [i \in 0 .. (na + nb - 1) |-> IF i < na THEN a[i] ELSE b[i - na]]

ArrayLen(a) == Cardinality(DOMAIN a)

\* array.reduce((sum, val) => sum + val, 0)
RECURSIVE SumTo(_, _)
SumTo(a, n) == IF n = 0 THEN 0 ELSE SumTo(a, n - 1) + a[n - 1]
ArraySum(a) == SumTo(a, ArrayLen(a))

---------------------------------------------------------------------------
(* The random source *)

RandomValues == 0 .. (RandomGrid - 1)

\* Math.floor(Math.random() * n) for Math.random() = k / RandomGrid
FloorRandomTimes(k, n) == (k * n) \div RandomGrid

\* One Math.random() value for each loop index i = n-1 .. 1 of a shuffle
RandomDraws(n) == [1 .. (n - 1) -> RandomValues]

---------------------------------------------------------------------------
(* generatePermutation, shuffleArray, applyColumnPermutation *)

\* mutant: the element at j is copied to i and not exchanged
SwapOverwrite(arr, i, j) == [arr EXCEPT ![i] = arr[j]]

Swap(arr, i, j) == [arr EXCEPT ![i] = arr[j], ![j] = arr[i]]

\* the loop `for (let i = arr.length - 1; i > 0; i--)`, from index i down
RECURSIVE FisherYatesFrom(_, _, _)
FisherYatesFrom(arr, i, draws) ==
    IF i > 0
    THEN LET j == FloorRandomTimes(draws[i], i + 1)
         IN  FisherYatesFrom(Swap(arr, i, j), i - 1, draws)
    ELSE arr

generatePermutation(n, draws) ==
    LET arr == [i \in 0 .. (n - 1) |-> i]
    IN  FisherYatesFrom(arr, ArrayLen(arr) - 1, draws)

shuffleArray(array, draws) ==
    LET shuffled == array
    IN  FisherYatesFrom(shuffled, ArrayLen(shuffled) - 1, draws)

applyColumnPermutation(matrix, permutation) ==
    [j \in DOMAIN matrix |->
        [i \in DOMAIN matrix[j] |->
            IF i < ArrayLen(permutation) THEN matrix[j][permutation[i]]
                                         ELSE matrix[j][i]]]

\* matrix.map(row => [...row]): a new array of new rows holding the same
\* numbers
copyRows(matrix) == [j \in DOMAIN matrix |-> [i \in DOMAIN matrix[j] |-> matrix[j][i]]]

\* mutant: the column is read from result, which the loop is overwriting
columnAssignFromResult(arrays, permutation, i) ==
    [arrays EXCEPT !.result =
        [j \in DOMAIN arrays.matrix |->
            [arrays.result[j] EXCEPT ![i] = arrays.result[j][permutation[i]]]]]

\* the inner loop for column i, on the three arrays the function holds:
\* `result[j][i] = temp[j][permutation[i]]` for each row j of matrix
columnAssign(arrays, permutation, i) ==
    [arrays EXCEPT !.result =
        [j \in DOMAIN arrays.matrix |->
            [arrays.result[j] EXCEPT ![i] = arrays.temp[j][permutation[i]]]]]

\* the outer loop `for (let i = 0; i < permutation.length; i++)`, from i on
RECURSIVE columnLoop(_, _, _)
columnLoop(arrays, permutation, i) ==
    IF i < ArrayLen(permutation)
    THEN columnLoop(columnAssign(arrays, permutation, i), permutation, i + 1)
    ELSE arrays

\* applyColumnPermutation run statement by statement: the argument array,
\* result and temp when the function returns result
applyColumnPermutationRun(matrix, permutation) ==
    columnLoop([matrix |-> matrix,
                result |-> copyRows(matrix),
                temp   |-> copyRows(matrix)], permutation, 0)

---------------------------------------------------------------------------
(* validateMiniBlocks *)

expectedWins == [row \in Rows |-> row + 1]

ColumnSum(matrix, col) == ArraySum([row \in DOMAIN matrix |-> matrix[row][col]])

\* mutant: a column of four wins is let through
validateMiniBlocksZeroOnly(matrix) ==
    IF ArrayLen(matrix) # 4 \/ \E row \in DOMAIN matrix : ArrayLen(matrix[row]) # 5
    THEN FALSE
    ELSE IF \E row \in 0 .. 3 : ArraySum(matrix[row]) # expectedWins[row]
    THEN FALSE
    ELSE IF \E col \in 0 .. 4 : ColumnSum(matrix, col) = 0
    THEN FALSE
    ELSE TRUE

validateMiniBlocks(matrix) ==
    IF ArrayLen(matrix) # 4 \/ \E row \in DOMAIN matrix : ArrayLen(matrix[row]) # 5
    THEN FALSE
    ELSE IF \E row \in 0 .. 3 : ArraySum(matrix[row]) # expectedWins[row]
    THEN FALSE
    ELSE IF \E col \in 0 .. 4 : ColumnSum(matrix, col) = 0 \/ ColumnSum(matrix, col) = 4
    THEN FALSE
    ELSE TRUE

\* validateMatrix of the test script: the three checks of validateMiniBlocks,
\* each with a console.log before its `return false`
validateMatrix(matrix) ==
    IF ArrayLen(matrix) # 4 \/ \E row \in DOMAIN matrix : ArrayLen(matrix[row]) # 5
    THEN FALSE
    ELSE LET rowWins == [row \in 0 .. 3 |-> ArraySum(matrix[row])]
         IN  IF \E row \in 0 .. 3 : rowWins[row] # expectedWins[row]
             THEN FALSE
             ELSE LET columnSums == [col \in 0 .. 4 |-> ColumnSum(matrix, col)]
                  IN  ~(\E col \in 0 .. 4 : columnSums[col] = 0 \/ columnSums[col] = 4)

---------------------------------------------------------------------------
(* generateMiniBlocks *)

winsPerRow == [row \in Rows |-> row + 1]

\* const outcomes = [...Array(numWins).fill(1), ...Array(5 - numWins).fill(0)]
RowOutcomes(row) ==
    LET numWins == winsPerRow[row]
    IN  ArrayConcat(ArrayFill(numWins, 1), numWins, ArrayFill(5 - numWins, 0), 5 - numWins)

\* matrix[row] = shuffleArray(outcomes), over every sequence of draws
ShuffledRows(row) == {shuffleArray(RowOutcomes(row), d) : d \in RandomDraws(5)}

\* the matrices the row loop of one attempt can build
RowMatrices ==
    {[row \in Rows |-> IF row = 0 THEN r0 ELSE IF row = 1 THEN r1
                       ELSE IF row = 2 THEN r2 ELSE r3] :
        r0 \in ShuffledRows(0), r1 \in ShuffledRows(1),
        r2 \in ShuffledRows(2), r3 \in ShuffledRows(3)}

\* generatePermutation(5), over every sequence of draws
ColumnPermutations == {generatePermutation(5, d) : d \in RandomDraws(5)}

\* permutedMatrix of one attempt, over every sequence of draws of the attempt
CandidateMatrices ==
    {applyColumnPermutation(matrix, columnPermutation) :
        matrix \in RowMatrices, columnPermutation \in ColumnPermutations}

\* validateMiniBlocks(permutedMatrix), tabulated once over the candidates
ValidatedCandidates == {c \in CandidateMatrices : validateMiniBlocks(c)}

fallbackMatrix ==
    [row \in Rows |->
        IF row = 0 THEN [c \in Cols |-> IF c \in {0, 2} THEN 1 ELSE 0]
        ELSE IF row = 1 THEN [c \in Cols |-> IF c \in {0, 1, 3} THEN 1 ELSE 0]
        ELSE IF row = 2 THEN [c \in Cols |-> IF c \in {0, 1, 2, 4} THEN 1 ELSE 0]
        ELSE [c \in Cols |-> IF c \in {0, 1, 2, 3} THEN 1 ELSE 0]]

\* mutants of the loop condition: one attempt too few, one too many
LoopGuardEarly(a) == a < maxAttempts - 1
LoopGuardLate(a) == a <= maxAttempts

\* the loop condition `attempt < maxAttempts`
LoopGuard(a) == a < maxAttempts

\* One iteration of the for loop: build the rows, permute the columns,
\* validate; return the candidate if it is valid, else go on.
GenerateAttempt ==
    /\ pc = "genLoop"
    /\ LoopGuard(attempt)
    /\ \E permutedMatrix \in CandidateMatrices :
         IF permutedMatrix \in ValidatedCandidates
         THEN /\ validated' = TRUE
              /\ result' = permutedMatrix
              /\ pc' = "genReturned"
              /\ UNCHANGED attempt
         ELSE /\ validated' = FALSE
              /\ attempt' = attempt + 1
              /\ pc' = "genLoop"
              /\ UNCHANGED result
    /\ UNCHANGED <<warned, permuteCall, seqVars, uiVars>>

\* mutant: the fallback is returned without the console.warn
GenerateFallbackSilent ==
    /\ pc = "genLoop"
    /\ ~LoopGuard(attempt)
    /\ result' = fallbackMatrix
    /\ pc' = "genReturned"
    /\ UNCHANGED <<attempt, validated, warned, permuteCall, seqVars, uiVars>>

\* The loop has ended: warn and return the fallback matrix.
GenerateFallback ==
    /\ pc = "genLoop"
    /\ ~LoopGuard(attempt)
    /\ warned' = TRUE
    /\ result' = fallbackMatrix
    /\ pc' = "genReturned"
    /\ UNCHANGED <<attempt, validated, permuteCall, seqVars, uiVars>>

---------------------------------------------------------------------------
(* generateTrialSequence *)

\* const probabilities = [0.2, 0.4, 0.6, 0.8], in percent
probabilities == [probIndex \in 0 .. 3 |-> 20 * (probIndex + 1)]

\* mutant: an index past the row's end starts again at column 0
MatrixAtWrapped(matrix, probIndex, col) == matrix[probIndex][col % 5]

\* miniBlockMatrix[probIndex][mb]: an index past the row's end reads undefined
MatrixAt(matrix, probIndex, col) ==
    IF col \in DOMAIN matrix[probIndex] THEN matrix[probIndex][col] ELSE Undefined

\* the return values of generateMiniBlocks(): the first candidate that
\* validates, or the fallback matrix when every attempt fails
GenerateMiniBlocksResults == ValidatedCandidates \cup {fallbackMatrix}

agencyTrial(matrix, m, probIndex) ==
    [miniBlock   |-> m + 1,
     blockType   |-> "agency",
     probability |-> probabilities[probIndex],
     outcomeWin  |-> (MatrixAt(matrix, probIndex, m) = 1),
     agency      |-> TRUE]

\* mutant: the no-agency trial reads the next mini-block's column
noAgencyTrialShifted(matrix, m, probIndex) ==
    [miniBlock   |-> m + 1,
     blockType   |-> "noAgency",
     probability |-> probabilities[probIndex],
     outcomeWin  |-> (MatrixAt(matrix, probIndex, (m + 1) % 5) = 1),
     agency      |-> FALSE]

noAgencyTrial(matrix, m, probIndex) ==
    [miniBlock   |-> m + 1,
     blockType   |-> "noAgency",
     probability |-> probabilities[probIndex],
     outcomeWin  |-> (MatrixAt(matrix, probIndex, m) = 1),
     agency      |-> FALSE]

\* the arrays built by the two push loops
agencyTrials(matrix, m) == [probIndex \in 0 .. 3 |-> agencyTrial(matrix, m, probIndex)]
noAgencyTrials(matrix, m) == [probIndex \in 0 .. 3 |-> noAgencyTrial(matrix, m, probIndex)]

\* The orders of a 4-element array, ranked 0..23: order k is the Fisher-Yates
\* result with swap indices j3, j2, j1 read off k (rank 0 keeps the order,
\* rank 1 reverses it).
ShuffleOrder(k) ==
    LET id == [i \in 0 .. 3 |-> i]
        a3 == Swap(id, 3, (3 + k) % 4)
        a2 == Swap(a3, 2, (2 + 2 * k) % 3)
    IN  Swap(a2, 1, (1 + (k \div 12)) % 2)

ShuffleOrders == {ShuffleOrder(k) : k \in 0 .. (NumShuffleOutcomes - 1)}

\* 1 when the order moves an element, 0 when it is the order given
Reorders(order) == IF order = ShuffleOrder(0) THEN 0 ELSE 1

\* shuffle(array) of '@/core/utils/randomization': a new array holding the
\* elements of `array` in the drawn order
shuffle(array, order) == [i \in DOMAIN array |-> array[order[i]]]

\* mutant: the pair is numbered from 0
miniBlockPairZeroBased(matrix, m, agencyOrder, noAgencyOrder) ==
    [agencyBlock     |-> shuffle(agencyTrials(matrix, m), agencyOrder),
     noAgencyBlock   |-> shuffle(noAgencyTrials(matrix, m), noAgencyOrder),
     miniBlockNumber |-> m]

\* mutant: one shuffle orders both blocks
miniBlockPairSharedOrder(matrix, m, agencyOrder, noAgencyOrder) ==
    [agencyBlock     |-> shuffle(agencyTrials(matrix, m), agencyOrder),
     noAgencyBlock   |-> shuffle(noAgencyTrials(matrix, m), agencyOrder),
     miniBlockNumber |-> m + 1]

miniBlockPair(matrix, m, agencyOrder, noAgencyOrder) ==
    [agencyBlock     |-> shuffle(agencyTrials(matrix, m), agencyOrder),
     noAgencyBlock   |-> shuffle(noAgencyTrials(matrix, m), noAgencyOrder),
     miniBlockNumber |-> m + 1]

\* mutant: one iteration too many
SeqLoopGuardLate(m, n) == m <= n

\* the loop condition `mb < numMiniBlocks`
SeqLoopGuard(m, n) == m < n

\* const miniBlockMatrix = generateMiniBlocks()
SeqGenerateMatrix ==
    /\ pc = "seqStart"
    /\ \E matrix \in GenerateMiniBlocksResults : miniBlockMatrix' = matrix
    /\ mb' = 0
    /\ trialsByMiniBlock' = <<>>
    /\ pc' = "seqLoop"
    /\ UNCHANGED <<numMiniBlocks, reordered, genVars, uiVars>>

\* One iteration of `for (let mb = 0; mb < numMiniBlocks; mb++)`
SeqBuildMiniBlock ==
    /\ pc = "seqLoop"
    /\ SeqLoopGuard(mb, numMiniBlocks)
    /\ \E agencyOrder \in ShuffleOrders, noAgencyOrder \in ShuffleOrders :
         /\ reordered' = reordered + Reorders(agencyOrder) + Reorders(noAgencyOrder)
         /\ reordered' <= MaxReordered
         /\ trialsByMiniBlock' =
               Append(trialsByMiniBlock,
                      miniBlockPair(miniBlockMatrix, mb, agencyOrder, noAgencyOrder))
    /\ mb' = mb + 1
    /\ UNCHANGED <<pc, numMiniBlocks, miniBlockMatrix, genVars, uiVars>>

\* the 24 orders shuffle() can return for a 4-trial block
AllShuffleOrders == {ShuffleOrder(k) : k \in 0 .. 23}

\* One iteration of the loop with each shuffle() returning any of its 24
\* orders.  The calls of one generateTrialSequence run that change the order
\* all fall in one iteration, which can be any of the five: while reordered
\* is 0 the iteration is free, afterwards the orders are kept.
SeqBuildAnyOrder ==
    /\ pc = "seqLoop"
    /\ SeqLoopGuard(mb, numMiniBlocks)
    /\ \E agencyOrder \in AllShuffleOrders, noAgencyOrder \in AllShuffleOrders :
         /\ reordered = 0 \/ Reorders(agencyOrder) + Reorders(noAgencyOrder) = 0
         /\ reordered' = reordered + Reorders(agencyOrder) + Reorders(noAgencyOrder)
         /\ trialsByMiniBlock' =
               Append(trialsByMiniBlock,
                      miniBlockPair(miniBlockMatrix, mb, agencyOrder, noAgencyOrder))
    /\ mb' = mb + 1
    /\ UNCHANGED <<pc, numMiniBlocks, miniBlockMatrix, genVars, uiVars>>

\* return { trialsByMiniBlock, miniBlockMatrix }
SeqReturn ==
    /\ pc = "seqLoop"
    /\ ~SeqLoopGuard(mb, numMiniBlocks)
    /\ pc' = "seqReturned"
    /\ UNCHANGED <<seqVars, genVars, uiVars>>

---------------------------------------------------------------------------
(* RouletteWheel.vue: the wheel pattern, the segments and the landing angle *)
(*                                                                         *)
(* A probability is kept in percent (0.2 is 20).  An angle is an integer   *)
(* number of 1/grid degrees, where Math.random() is k/grid; a whole number *)
(* of degrees d is d * grid.                                               *)

\* Math.random() in the wheel functions takes the values k / WheelRandomGrid.
\* With WheelRandomGrid >= 32 every index of targetSegments is drawn.
WheelRandomGrid == 32

totalSegments == 40
segmentAngle == 9
wheelSpacing == 120
extraSpins == 720
resetRotation == -10
defaultProbability == 50
fullTurn == 360

WheelRandomValues == 0 .. (WheelRandomGrid - 1)
WheelIndices == 0 .. 2
SegmentIndices == 0 .. (totalSegments - 1)

\* the four tiers, and the `|| 0.5` default of the spin-phase wheel
WheelProbabilities == {probabilities[probIndex] : probIndex \in 0 .. 3}
                          \cup {defaultProbability}

\* mutant: the win count is taken over one segment less
winSegmentsShort(probability) == (probability * (totalSegments - 1)) \div 100

\* Math.round(probability * totalSegments)
winSegments(probability) == (probability * totalSegments + 50) \div 100

\* [...Array(winSegments).fill(true), ...Array(totalSegments - winSegments).fill(false)]
baseSegments(probability) ==
    ArrayConcat(ArrayFill(winSegments(probability), TRUE), winSegments(probability),
                ArrayFill(totalSegments - winSegments(probability), FALSE),
                totalSegments - winSegments(probability))

\* Math.floor(probability * 1000)
seedOf(probability) == (probability * 1000) \div 100

\* mutant: the generator state is shared by the calls and never reseeded
closureRandomShared(probability, previous) == previous

\* `let random = seed`: every call declares a new `random`, whatever value
\* an earlier call left in its own
closureRandom(probability, previous) == seedOf(probability)

\* mutant: the increment is one less
nextRandomSmallerStep(r) == (((r * 93) % 233280) * 100 + r + 49296) % 233280

\* random = (random * 9301 + 49297) % 233280, exact in a JS double; the
\* product is taken as (random * 93) * 100 + random, reduced in between
nextRandom(r) == (((r * 93) % 233280) * 100 + r + 49297) % 233280

\* Math.floor(seededRandom() * (i + 1)), seededRandom() = random / 233280
seededIndex(r, i) == (r * (i + 1)) \div 233280

\* for (let i = segments.length - 1; i > 0; i--) { j = ...; swap(i, j) }:
\* the shuffled array, and the `random` the loop ends with
RECURSIVE seededShuffleFrom(_, _, _)
seededShuffleFrom(segments, i, r) ==
    IF i > 0
    THEN LET next == nextRandom(r)
         IN  seededShuffleFrom(Swap(segments, i, seededIndex(next, i)), i - 1, next)
    ELSE [segments |-> segments, random |-> r]

\* the run of createBaseWheelPattern(probability); `previous` is the `random`
\* an earlier call ended with
patternRun(probability, previous) ==
    seededShuffleFrom(baseSegments(probability), totalSegments - 1,
                      closureRandom(probability, previous))

\* createBaseWheelPattern(probability): `return segments`
createBaseWheelPattern(probability, previous) ==
    patternRun(probability, previous).segments

\* the `random` this call ends with
patternRandom(probability, previous) ==
    patternRun(probability, previous).random

\* mutant: the pattern is turned with the wheel, not the drawing
segmentIsWinTurned(pattern, i, wheelIndex) ==
    pattern[(i + wheelIndex) % totalSegments]

\* const isWin = baseSegmentTypes[i]
segmentIsWin(pattern, i, wheelIndex) == pattern[i]

\* const angle = i * segmentAngle - 90 + wheelRotation, in whole degrees
segmentStart(i, wheelIndex) ==
    i * segmentAngle - 90 + wheelIndex * wheelSpacing

\* generateSegments(): the pathData of a segment is the arc from `angle`
\* to `angle + segmentAngle`, kept here as its start angle
generateSegments(probability, wheelIndex, previous) ==
    LET baseSegmentTypes == createBaseWheelPattern(probability, previous)
    IN  [i \in SegmentIndices |->
            [isWin |-> segmentIsWin(baseSegmentTypes, i, wheelIndex),
             index |-> i,
             angle |-> segmentStart(i, wheelIndex)]]

\* baseSegmentTypes.map((isWin, i) => isWin === outcome ? i : -1)
\*                 .filter(i => i !== -1), as the set of the indices it keeps
targetIndices(pattern, outcome) ==
    {i \in DOMAIN pattern : pattern[i] = outcome}

\* targetSegments[n]: the n-th kept index, undefined past the end
targetSegmentAt(pattern, outcome, n) ==
    IF n < Cardinality(targetIndices(pattern, outcome))
    THEN CHOOSE i \in targetIndices(pattern, outcome) :
            Cardinality({h \in targetIndices(pattern, outcome) : h < i}) = n
    ELSE Undefined

\* targetSegments[Math.floor(Math.random() * targetSegments.length)],
\* Math.random() = k / grid
targetSegmentIndex(pattern, outcome, k, grid) ==
    targetSegmentAt(pattern, outcome,
                    (k * Cardinality(targetIndices(pattern, outcome))) \div grid)

\* mutant: the wheel's own rotation is left out of the landing angle
targetAngleUnturned(index, k, wheelIndex, grid) ==
    (index * segmentAngle) * grid + k * segmentAngle

\* targetSegmentIndex * segmentAngle + Math.random() * segmentAngle + wheelRotation
targetAngle(index, k, wheelIndex, grid) ==
    (index * segmentAngle + wheelIndex * wheelSpacing) * grid + k * segmentAngle

\* RouletteWheel.vue getOutcomeRotation(): a new createBaseWheelPattern call,
\* two Math.random() draws k1/grid and k2/grid, `return targetAngle + 720`
getOutcomeRotation(probability, wheelIndex, outcome, k1, k2, grid, previous) ==
    targetAngle(targetSegmentIndex(createBaseWheelPattern(probability, previous),
                                   outcome, k1, grid),
                k2, wheelIndex, grid)
        + extraSpins * grid

\* mutant: the flag is ignored and the two turns are always added
getOutcomeRotationAlwaysExtra(probability, wheelIndex, outcome, withExtraSpins, k1, k2, grid, previous) ==
    getOutcomeRotation(probability, wheelIndex, outcome, k1, k2, grid, previous)

\* The wheel variant's getOutcomeRotation(withExtraSpins):
\* return withExtraSpins ? baseAngle + 720 : baseAngle
getOutcomeRotationVariant(probability, wheelIndex, outcome, withExtraSpins, k1, k2, grid, previous) ==
    targetAngle(targetSegmentIndex(createBaseWheelPattern(probability, previous),
                                   outcome, k1, grid),
                k2, wheelIndex, grid)
        + (IF withExtraSpins THEN extraSpins * grid ELSE 0)

\* The pointer is drawn from the centre straight up, the direction -90
\* degrees of the segment paths, and is turned by `rotation`: it lies in the
\* span [angle, angle + segmentAngle) of the segment this picks.
pointedSegment(segments, rotation, grid) ==
    CHOOSE i \in DOMAIN segments :
        ((rotation - 90 * grid - segments[i].angle * grid) % (fullTurn * grid))
            < segmentAngle * grid

NoCall == [fn |-> "none"]

WheelIdle ==
    /\ random = 0
    /\ firstCall = NoCall
    /\ lastCall = NoCall

\* the call that is remembered as the first one
FirstCallAfter(probability, pattern) ==
    IF firstCall = NoCall
    THEN [fn |-> "createBaseWheelPattern", probability |-> probability,
          pattern |-> pattern]
    ELSE firstCall

\* A call of createBaseWheelPattern(probability)
PatternCall ==
    /\ pc = "patternCalls"
    /\ \E probability \in WheelProbabilities :
         /\ lastCall' = [fn |-> "createBaseWheelPattern",
                         probability |-> probability, previous |-> random,
                         pattern |-> createBaseWheelPattern(probability, random)]
         /\ firstCall' = FirstCallAfter(probability,
                                        createBaseWheelPattern(probability, random))
         /\ random' = patternRandom(probability, random)
    /\ UNCHANGED <<pc, genVars, seqVars, viewVars>>

\* The choice phase renders three wheels of one probability: generateSegments
\* runs for wheelIndex 0, 1 and 2, each with its own createBaseWheelPattern call
RenderCall ==
    /\ pc = "patternCalls"
    /\ \E probability \in WheelProbabilities :
         LET random1 == patternRandom(probability, random)
             random2 == patternRandom(probability, random1)
             wheels == <<generateSegments(probability, 0, random),
                         generateSegments(probability, 1, random1),
                         generateSegments(probability, 2, random2)>>
         IN /\ lastCall' = [fn |-> "generateSegments",
                            probability |-> probability, previous |-> random,
                            wheels |-> [w \in WheelIndices |-> wheels[w + 1]]]
            /\ firstCall' = FirstCallAfter(probability,
                                [i \in SegmentIndices |-> wheels[1][i].isWin])
            /\ random' = patternRandom(probability, random2)
    /\ UNCHANGED <<pc, genVars, seqVars, viewVars>>

\* A mounted wheel: its props and its computed `segments`
MountedWheel(probability, wheelIndex, outcome) ==
    [fn |-> "mounted", probability |-> probability, wheelIndex |-> wheelIndex,
     outcome |-> outcome,
     segments |-> generateSegments(probability, wheelIndex, 0)]

\* the record of a landing-angle call on the mounted wheel
RotationResult(fn, withExtraSpins, k1, k2, rotation) ==
    [fn |-> fn, probability |-> lastCall.probability,
     wheelIndex |-> lastCall.wheelIndex, outcome |-> lastCall.outcome,
     segments |-> lastCall.segments, withExtraSpins |-> withExtraSpins,
     index |-> targetSegmentIndex(
                   createBaseWheelPattern(lastCall.probability, random),
                   lastCall.outcome, k1, WheelRandomGrid),
     draw |-> k1, offset |-> k2, rotation |-> rotation]

\* A call of RouletteWheel.vue getOutcomeRotation()
RotationCall ==
    /\ pc = "wheelMounted"
    /\ \E k1 \in WheelRandomValues, k2 \in WheelRandomValues :
         lastCall' = RotationResult("getOutcomeRotation", TRUE, k1, k2,
                getOutcomeRotation(lastCall.probability, lastCall.wheelIndex,
                    lastCall.outcome, k1, k2, WheelRandomGrid, random))
    /\ random' = patternRandom(lastCall.probability, random)
    /\ pc' = "wheelCalled"
    /\ UNCHANGED <<firstCall, genVars, seqVars, viewVars>>

\* A call of the wheel variant's getOutcomeRotation(withExtraSpins)
RotationVariantCall ==
    /\ pc = "wheelMounted"
    /\ \E withExtraSpins \in BOOLEAN,
          k1 \in WheelRandomValues, k2 \in WheelRandomValues :
         lastCall' = RotationResult("getOutcomeRotationVariant",
                withExtraSpins, k1, k2,
                getOutcomeRotationVariant(lastCall.probability, lastCall.wheelIndex,
                    lastCall.outcome, withExtraSpins, k1, k2, WheelRandomGrid,
                    random))
    /\ random' = patternRandom(lastCall.probability, random)
    /\ pc' = "wheelCalled"
    /\ UNCHANGED <<firstCall, genVars, seqVars, viewVars>>

---------------------------------------------------------------------------
(* RouletteExperimentView.vue: the experiment view and its spin-phase wheel *)
(*                                                                         *)
(* A ref that can hold null is the empty tuple for null and a one-element  *)
(* tuple for a value.  Angles of the spin-phase wheel are in 1/RandomGrid  *)
(* degrees.  Date.now() timestamps and log lines are left out.             *)

\* initializeExperiment() receives one of the first MaxViewMatrices validated
\* matrices, or the fallback matrix.
MaxViewMatrices == 1

\* In the first MaxFreeTrials trials the participant clicks any of the three
\* wheels, any number of times; in a later trial, the wheel the trial's
\* number selects.
MaxFreeTrials == 1

trialsPerSubBlock == 4
trialsPerMiniBlock == 8
ratingMax == 100

Null == << >>
Some(v) == <<v>>
ValueOf(x) == x[1]

\* the first n elements of a set, in the order CHOOSE takes them
RECURSIVE FirstOf(_, _)
FirstOf(S, n) ==
    IF n = 0 \/ S = {} THEN {}
    ELSE LET x == CHOOSE y \in S : TRUE
         IN  {x} \cup FirstOf(S \ {x}, n - 1)

ViewMatrices == FirstOf(ValidatedCandidates, MaxViewMatrices) \cup {fallbackMatrix}

\* generateTrialSequence(CONFIG.numMiniBlocks) for a matrix, with the agency
\* blocks in order `rank` of ShuffleOrders and the no-agency blocks in the
\* next one
trialSequence(matrix, rank) ==
    [k \in 1 .. defaultNumMiniBlocks |->
        miniBlockPair(matrix, k - 1, ShuffleOrder(rank),
                      ShuffleOrder((rank + 1) % NumShuffleOutcomes))]

ViewSequences ==
    {[trialsByMiniBlock |-> trialSequence(matrix, rank), miniBlockMatrix |-> matrix] :
        matrix \in ViewMatrices, rank \in 0 .. (NumShuffleOutcomes - 1)}

\* api.persist before initializeExperiment() has run
NoPersist == [trialsByMiniBlock |-> << >>, miniBlockMatrix |-> << >>]

Initialized == Len(persist.trialsByMiniBlock) > 0

\* const isWheelSpinning = computed(() => animationsEnabled.value && !spinComplete.value)
isWheelSpinning == animationsEnabled /\ ~spinComplete

\* mutant: the blocks of the mini-block are taken the other way round
currentTrialDataSwapped ==
    LET mbData == persist.trialsByMiniBlock[currentMiniBlock + 1]
        blockTrials == IF currentSubBlock = "agency" THEN mbData.noAgencyBlock
                                                     ELSE mbData.agencyBlock
    IN  blockTrials[currentTrialInSubBlock]

\* const currentTrialData = computed(...)
currentTrialData ==
    LET mbData == persist.trialsByMiniBlock[currentMiniBlock + 1]
        blockTrials == IF currentSubBlock = "agency" THEN mbData.agencyBlock
                                                     ELSE mbData.noAgencyBlock
    IN  blockTrials[currentTrialInSubBlock]

\* mutant: the four agency trials of the mini-block are not counted
completedTrialsCountFlat ==
    currentMiniBlock * trialsPerMiniBlock + currentTrialInSubBlock

\* const completedTrialsCount = computed(...)
completedTrialsCount ==
    currentMiniBlock * trialsPerMiniBlock
        + (IF currentSubBlock = "noAgency" THEN trialsPerSubBlock ELSE 0)
        + currentTrialInSubBlock

\* const totalTrials = computed(() => CONFIG.numMiniBlocks * 8)
totalTrials == defaultNumMiniBlocks * trialsPerMiniBlock

\* const progress = computed(() => ((completedTrialsCount.value + 1) / totalTrials.value) * 100),
\* kept as progress * totalTrials
progress == (completedTrialsCount + 1) * 100

\* the wheels the participant clicks in this trial
ClickedWheels ==
    IF completedTrialsCount < MaxFreeTrials THEN WheelIndices
    ELSE {completedTrialsCount % 3}

\* the values the participant sets the rating scales to
\* (0, the middle or the top of the 0..100 scale, in turn)
ConfidenceRatings == {((completedTrialsCount % 3) * ratingMax) \div 2}
SatisfactionRatings == {(((currentMiniBlock + 1) % 3) * ratingMax) \div 2}

\* props of the spin-phase wheel
spinProbability ==
    IF currentTrialData.probability = 0 THEN defaultProbability
    ELSE currentTrialData.probability
spinWheelIndex == IF selectedWheel # Null THEN ValueOf(selectedWheel) ELSE 0
spinOutcome == currentTrialData.outcomeWin

\* its computed `segments`; the closure variable of the pattern call is
\* dropped when the call returns
spinSegments == generateSegments(spinProbability, spinWheelIndex, random)

\* transform: rotate(${props.isSpinning ? targetRotation : 0}deg)
displayedRotation == IF isWheelSpinning THEN targetRotation ELSE 0

\* the unmounted spin-phase wheel
WheelUnmounted ==
    /\ targetRotation = 0
    /\ timerPending = FALSE
    /\ transitionRunning = FALSE

ViewIdle ==
    /\ phase = "instructions"
    /\ animationsEnabled = TRUE
    /\ currentMiniBlock = 0
    /\ currentSubBlock = "agency"
    /\ currentTrialInSubBlock = 0
    /\ selectedWheel = Null
    /\ confidenceRating = Null
    /\ agencySatisfaction = Null
    /\ noAgencySatisfaction = Null
    /\ isApproved = Null
    /\ results = << >>
    /\ spinComplete = FALSE
    /\ recorded = << >>
    /\ persist = NoPersist
    /\ WheelUnmounted
    /\ toolCall = NoCall

\* mutant: the choice is confirmed without a selected wheel
selectionMissingNever(wheel) == FALSE

\* `if (selectedWheel.value === null) return`
selectionMissing(wheel) == wheel = Null

\* `if (confidenceRating.value === null) return`
ratingMissing(rating) == rating = Null

\* mutant: the approval follows the outcome
approvalOfOutcome(trial) == trial.outcomeWin

\* isApproved.value = currentTrialData.value.agency
approvalOf(trial) == trial.agency

\* mutant: the position moves on by two
nextTrialInSubBlockSkipping(n) == n + 2

\* currentTrialInSubBlock.value++
nextTrialInSubBlock(n) == n + 1

\* mutant: a sub-block ends after three trials
subBlockCompleteEarly(n) == n >= trialsPerSubBlock - 1

\* `if (currentTrialInSubBlock.value >= 4)`
subBlockComplete(n) == n >= trialsPerSubBlock

\* `if (currentMiniBlock.value >= CONFIG.numMiniBlocks)`
experimentComplete(m) == m >= defaultNumMiniBlocks

\* the trialData object of completeCurrentTrial(): the spread of
\* currentTrialData comes after miniBlock and overwrites it
trialDataOf(trial) ==
    [miniBlock        |-> trial.miniBlock,
     subBlock         |-> currentSubBlock,
     trialInSubBlock  |-> currentTrialInSubBlock,
     blockType        |-> trial.blockType,
     probability      |-> trial.probability,
     outcomeWin       |-> trial.outcomeWin,
     agency           |-> trial.agency,
     selectedWheel    |-> selectedWheel,
     isApproved       |-> isApproved,
     confidenceRating |-> confidenceRating]

posVars == <<currentMiniBlock, currentSubBlock, currentTrialInSubBlock>>
trialVars == <<selectedWheel, confidenceRating, isApproved>>
satVars == <<agencySatisfaction, noAgencySatisfaction>>
dataVars == <<results, recorded>>
spinWheelVars == <<targetRotation, timerPending, transitionRunning>>
modelVars == <<pc, genVars, seqVars, wheelVars>>

\* The wheel's watch([isSpinning, outcome]) callback, run with the new
\* isSpinning; a pending timeout is never cleared
WheelWatch(spinning, outcome) ==
    IF spinning /\ outcome # Null
    THEN /\ targetRotation' = resetRotation * RandomGrid
         /\ timerPending' = TRUE
         /\ transitionRunning' = FALSE
    ELSE /\ targetRotation' = 0
         /\ transitionRunning' = FALSE
         /\ UNCHANGED timerPending

\* mutant: the sequence is generated again on a later call
InitializeExperimentAgain ==
    /\ pc = "view"
    /\ \E sequence \in ViewSequences : persist' = sequence
    /\ UNCHANGED <<phase, animationsEnabled, posVars, trialVars, satVars, dataVars,
                   spinComplete, spinWheelVars, toolCall, modelVars>>

\* onMounted, after `await api.connectDB()`: initializeExperiment()
InitializeExperiment ==
    /\ pc = "view"
    /\ ~Initialized
    /\ \E sequence \in ViewSequences : persist' = sequence
    /\ UNCHANGED <<phase, animationsEnabled, posVars, trialVars, satVars, dataVars,
                   spinComplete, spinWheelVars, toolCall, modelVars>>

\* Start button of the instructions screen
StartExperiment ==
    /\ pc = "view"
    /\ phase = "instructions"
    /\ phase' = "choice"
    /\ UNCHANGED <<animationsEnabled, posVars, trialVars, satVars, dataVars,
                   spinComplete, persist, spinWheelVars, toolCall, modelVars>>

\* mutant: the wheel of the later screens takes clicks too
HandleWheelChoiceAnyPhase ==
    /\ pc = "view"
    /\ phase \in {"choice", "approval", "confidence", "spin"}
    /\ Initialized
    /\ \E wheelIndex \in ClickedWheels : selectedWheel' = Some(wheelIndex)
    /\ UNCHANGED <<phase, animationsEnabled, posVars, confidenceRating, isApproved,
                   satVars, dataVars, spinComplete, persist, spinWheelVars, toolCall, modelVars>>

\* A click on one of the three wheels of the choice screen, which renders
\* only once the trials exist
HandleWheelChoice ==
    /\ pc = "view"
    /\ phase = "choice"
    /\ Initialized
    /\ \E wheelIndex \in ClickedWheels : selectedWheel' = Some(wheelIndex)
    /\ UNCHANGED <<phase, animationsEnabled, posVars, confidenceRating, isApproved,
                   satVars, dataVars, spinComplete, persist, spinWheelVars, toolCall, modelVars>>

\* Confirm Choice button, shown when a wheel is selected
ProceedToApproval ==
    /\ pc = "view"
    /\ phase = "choice"
    /\ Initialized
    /\ ~selectionMissing(selectedWheel)
    /\ phase' = "approval"
    /\ isApproved' = Some(approvalOf(currentTrialData))
    /\ UNCHANGED <<animationsEnabled, posVars, selectedWheel, confidenceRating,
                   satVars, dataVars, spinComplete, persist, spinWheelVars, toolCall, modelVars>>

\* Continue button of the approval screen
ProceedToConfidence ==
    /\ pc = "view"
    /\ phase = "approval"
    /\ phase' = "confidence"
    /\ UNCHANGED <<animationsEnabled, posVars, trialVars, satVars, dataVars,
                   spinComplete, persist, spinWheelVars, toolCall, modelVars>>

\* The confidence RatingScale emits `change`
HandleConfidenceRating ==
    /\ pc = "view"
    /\ phase = "confidence"
    /\ \E rating \in ConfidenceRatings : confidenceRating' = Some(rating)
    /\ UNCHANGED <<phase, animationsEnabled, posVars, selectedWheel, isApproved,
                   satVars, dataVars, spinComplete, persist, spinWheelVars, toolCall, modelVars>>

\* mutant: the spin is not marked complete when animations are disabled
ProceedToSpinNoShortcut ==
    /\ pc = "view"
    /\ phase = "confidence"
    /\ ~ratingMissing(confidenceRating)
    /\ phase' = "spin"
    /\ spinComplete' = FALSE
    /\ WheelWatch(animationsEnabled, Some(spinOutcome))
    /\ UNCHANGED <<animationsEnabled, posVars, trialVars, satVars, dataVars,
                   persist, toolCall, modelVars>>

\* Continue button of the confidence screen, shown when a rating is set.
\* The spin-phase wheel is mounted and its immediate watch runs.
ProceedToSpin ==
    /\ pc = "view"
    /\ phase = "confidence"
    /\ ~ratingMissing(confidenceRating)
    /\ phase' = "spin"
    /\ spinComplete' = ~animationsEnabled
    /\ WheelWatch(animationsEnabled, Some(spinOutcome))
    /\ UNCHANGED <<animationsEnabled, posVars, trialVars, satVars, dataVars,
                   persist, toolCall, modelVars>>

\* The wheel's setTimeout callback: targetRotation.value = getOutcomeRotation().
\* The pointer starts a transition when its transform changes while
\* `transition: transform 2.5s` is in effect.
WheelTimeout ==
    /\ pc = "view"
    /\ phase = "spin"
    /\ timerPending
    /\ timerPending' = FALSE
    /\ \E k1 \in RandomValues, k2 \in RandomValues :
         targetRotation' = getOutcomeRotation(spinProbability, spinWheelIndex,
                                              spinOutcome, k1, k2, RandomGrid, random)
    /\ transitionRunning' = isWheelSpinning
    /\ UNCHANGED <<phase, animationsEnabled, posVars, trialVars, satVars, dataVars,
                   spinComplete, persist, toolCall, modelVars>>

\* transitionend on the pointer: handleAnimationComplete emits spin-complete,
\* handleSpinComplete sets spinComplete, and the wheel's watch runs
TransitionEnd ==
    /\ pc = "view"
    /\ phase = "spin"
    /\ transitionRunning
    /\ spinComplete' = TRUE
    /\ WheelWatch(FALSE, Some(spinOutcome))
    /\ UNCHANGED <<phase, animationsEnabled, posVars, trialVars, satVars, dataVars,
                   persist, toolCall, modelVars>>

\* The Animations switch, with the view's watch(animationsEnabled) and, when
\* isSpinning changes on a mounted wheel, the wheel's watch
ToggleAnimations ==
    /\ pc = "view"
    /\ animationsEnabled' = ~animationsEnabled
    /\ spinComplete' = IF phase = "spin" /\ animationsEnabled THEN TRUE
                       ELSE spinComplete
    /\ IF phase = "spin" /\ isWheelSpinning # (animationsEnabled' /\ ~spinComplete')
       THEN WheelWatch(animationsEnabled' /\ ~spinComplete', Some(spinOutcome))
       ELSE UNCHANGED spinWheelVars
    /\ UNCHANGED <<phase, posVars, trialVars, satVars, dataVars, persist, toolCall, modelVars>>

\* mutant: the selected wheel is not reset
CompleteCurrentTrialKeepingWheel ==
    /\ pc = "view"
    /\ phase = "spin"
    /\ spinComplete
    /\ results' = Append(results, trialDataOf(currentTrialData))
    /\ recorded' = Append(recorded, trialDataOf(currentTrialData))
    /\ confidenceRating' = Null
    /\ spinComplete' = FALSE
    /\ isApproved' = Null
    /\ currentTrialInSubBlock' = nextTrialInSubBlock(currentTrialInSubBlock)
    /\ phase' = IF subBlockComplete(currentTrialInSubBlock')
                THEN IF currentSubBlock = "agency" THEN "agencySatisfaction"
                                                   ELSE "noAgencySatisfaction"
                ELSE "choice"
    /\ targetRotation' = 0
    /\ timerPending' = FALSE
    /\ transitionRunning' = FALSE
    /\ UNCHANGED <<animationsEnabled, currentMiniBlock, currentSubBlock, selectedWheel, satVars,
                   persist, toolCall, modelVars>>

\* Continue button of the spin screen, shown when spinComplete: the trial is
\* pushed to results and recorded, the trial state is reset and the
\* spin-phase wheel is unmounted
CompleteCurrentTrial ==
    /\ pc = "view"
    /\ phase = "spin"
    /\ spinComplete
    /\ results' = Append(results, trialDataOf(currentTrialData))
    /\ recorded' = Append(recorded, trialDataOf(currentTrialData))
    /\ selectedWheel' = Null
    /\ confidenceRating' = Null
    /\ spinComplete' = FALSE
    /\ isApproved' = Null
    /\ currentTrialInSubBlock' = nextTrialInSubBlock(currentTrialInSubBlock)
    /\ phase' = IF subBlockComplete(currentTrialInSubBlock')
                THEN IF currentSubBlock = "agency" THEN "agencySatisfaction"
                                                   ELSE "noAgencySatisfaction"
                ELSE "choice"
    /\ targetRotation' = 0
    /\ timerPending' = FALSE
    /\ transitionRunning' = FALSE
    /\ UNCHANGED <<animationsEnabled, currentMiniBlock, currentSubBlock, satVars,
                   persist, toolCall, modelVars>>

\* The agency satisfaction RatingScale emits `change`
HandleAgencySatisfaction ==
    /\ pc = "view"
    /\ phase = "agencySatisfaction"
    /\ \E rating \in SatisfactionRatings : agencySatisfaction' = Some(rating)
    /\ UNCHANGED <<phase, animationsEnabled, posVars, trialVars, noAgencySatisfaction,
                   dataVars, spinComplete, persist, spinWheelVars, toolCall, modelVars>>

\* mutant: the rating of the agency block is not reset
CompleteAgencySatisfactionKeeping ==
    /\ pc = "view"
    /\ phase = "agencySatisfaction"
    /\ agencySatisfaction # Null
    /\ recorded' = Append(recorded, [miniBlock |-> currentMiniBlock + 1,
                                     agencySatisfaction |-> agencySatisfaction])
    /\ currentSubBlock' = "noAgency"
    /\ currentTrialInSubBlock' = 0
    /\ phase' = "choice"
    /\ UNCHANGED <<animationsEnabled, currentMiniBlock, trialVars, satVars,
                   results, spinComplete, persist, spinWheelVars, toolCall, modelVars>>

\* Continue button of the agency satisfaction screen, disabled without a rating
CompleteAgencySatisfaction ==
    /\ pc = "view"
    /\ phase = "agencySatisfaction"
    /\ agencySatisfaction # Null
    /\ recorded' = Append(recorded, [miniBlock |-> currentMiniBlock + 1,
                                     agencySatisfaction |-> agencySatisfaction])
    /\ currentSubBlock' = "noAgency"
    /\ currentTrialInSubBlock' = 0
    /\ agencySatisfaction' = Null
    /\ phase' = "choice"
    /\ UNCHANGED <<animationsEnabled, currentMiniBlock, trialVars, noAgencySatisfaction,
                   results, spinComplete, persist, spinWheelVars, toolCall, modelVars>>

\* The no-agency satisfaction RatingScale emits `change`
HandleNoAgencySatisfaction ==
    /\ pc = "view"
    /\ phase = "noAgencySatisfaction"
    /\ \E rating \in SatisfactionRatings : noAgencySatisfaction' = Some(rating)
    /\ UNCHANGED <<phase, animationsEnabled, posVars, trialVars, agencySatisfaction,
                   dataVars, spinComplete, persist, spinWheelVars, toolCall, modelVars>>

\* Continue button of the no-agency satisfaction screen, disabled without a
\* rating
CompleteNoAgencySatisfaction ==
    /\ pc = "view"
    /\ phase = "noAgencySatisfaction"
    /\ noAgencySatisfaction # Null
    /\ recorded' = Append(recorded, [miniBlock |-> currentMiniBlock + 1,
                                     noAgencySatisfaction |-> noAgencySatisfaction])
    /\ currentMiniBlock' = currentMiniBlock + 1
    /\ IF experimentComplete(currentMiniBlock')
       THEN /\ phase' = "complete"
            /\ UNCHANGED <<currentSubBlock, currentTrialInSubBlock,
                           noAgencySatisfaction>>
       ELSE /\ currentSubBlock' = "agency"
            /\ currentTrialInSubBlock' = 0
            /\ noAgencySatisfaction' = Null
            /\ phase' = "choice"
    /\ UNCHANGED <<animationsEnabled, trialVars, agencySatisfaction, results,
                   spinComplete, persist, spinWheelVars, toolCall, modelVars>>

---------------------------------------------------------------------------
(* RouletteExperimentView.vue: autofill and downloadResults                *)

\* api.config.mode
Modes == {"development", "presentation", "production"}

\* the names the view's script binds at its top level (imports, consts)
scriptBindings ==
    {"ref", "computed", "onMounted", "onUnmounted", "watch", "useViewAPI",
     "Button", "Switch", "ConstrainedPage", "RouletteWheel", "RatingScale",
     "generateTrialSequence", "api", "phases", "createTrial", "CONFIG",
     "phase", "animationsEnabled", "wheelSize", "isWheelSpinning",
     "containerEl", "currentMiniBlock", "currentSubBlock",
     "currentTrialInSubBlock", "selectedWheel", "confidenceRating",
     "agencySatisfaction", "noAgencySatisfaction", "isApproved", "results",
     "spinComplete", "totalMiniBlocks", "totalTrials", "currentTrialData",
     "completedTrialsCount", "progress", "isComplete", "initializeExperiment",
     "startExperiment", "handleWheelChoice", "proceedToApproval",
     "proceedToConfidence", "handleConfidenceRating", "proceedToSpin",
     "handleSpinComplete", "completeCurrentTrial",
     "completeAgencySatisfaction", "completeNoAgencySatisfaction",
     "downloadResults", "finish", "autofill"}

\* reading an identifier: a name that is bound nowhere raises a ReferenceError
readIdentifier(name) == IF name \in scriptBindings THEN "none" ELSE "ReferenceError"

\* `if (api.config.mode === 'development' || api.config.mode === 'presentation')`
autofillEnabled(mode) == mode = "development" \/ mode = "presentation"

\* the number NaN
NaN == << >>

\* results.value.reduce((sum, t) => sum + t[field], 0) over the first n
\* entries: a property the entry lacks is undefined and turns the sum into
\* NaN, null adds 0
RECURSIVE reduceSum(_, _, _)
reduceSum(entries, field, n) ==
    IF n = 0 THEN Some(0)
    ELSE LET sum == reduceSum(entries, field, n - 1)
             t == entries[n]
         IN  IF sum = NaN \/ field \notin DOMAIN t THEN NaN
             ELSE IF t[field] = Null THEN sum
             ELSE Some(ValueOf(sum) + ValueOf(t[field]))

\* results.value.filter(t => t[field]).length
filterCount(entries, field) ==
    Cardinality({n \in 1 .. Len(entries) : field \in DOMAIN entries[n] /\ entries[n][field]})

\* the `summary` object of downloadResults().  A quotient x / results.length
\* is kept as its numerator x (NaN when the length is 0); the two Date
\* values are left out.
summaryOf(entries) ==
    LET over(x) == IF Len(entries) = 0 THEN NaN ELSE x
    IN  [completedTrials     |-> Len(entries),
         averageConfidence   |-> over(reduceSum(entries, "confidenceRating", Len(entries))),
         averageSatisfaction |-> over(reduceSum(entries, "satisfactionRating", Len(entries))),
         agencyRate          |-> over(Some(filterCount(entries, "agency"))),
         winRate             |-> over(Some(filterCount(entries, "outcomeWin")))]

\* autofill(), called through api.setAutofill.  In development or
\* presentation mode the loop condition reads `currentTrial`, and the call
\* ends there when that raises; otherwise the call does nothing.
Autofill ==
    /\ pc = "view"
    /\ \E mode \in Modes :
         toolCall' = [fn     |-> "autofill",
                      mode   |-> mode,
                      thrown |-> IF autofillEnabled(mode)
                                 THEN readIdentifier("currentTrial")
                                 ELSE "none"]
    /\ readIdentifier("currentTrial") # "none"
    /\ UNCHANGED <<phase, animationsEnabled, posVars, trialVars, satVars, dataVars,
                   spinComplete, persist, spinWheelVars, modelVars>>

\* Download Results button of the complete screen.  summary is built, then
\* the exportData literal reads `miniBlocks`, and the call ends there when
\* that raises: no export object comes to exist.
DownloadResults ==
    /\ pc = "view"
    /\ phase = "complete"
    /\ readIdentifier("miniBlocks") # "none"
    /\ toolCall' = [fn         |-> "downloadResults",
                    summary    |-> summaryOf(results),
                    thrown     |-> readIdentifier("miniBlocks"),
                    exportData |-> Null]
    /\ UNCHANGED <<phase, animationsEnabled, posVars, trialVars, satVars, dataVars,
                   spinComplete, persist, spinWheelVars, modelVars>>

---------------------------------------------------------------------------
(* Specifications *)

SeqIdle ==
    /\ numMiniBlocks = 0
    /\ miniBlockMatrix = NoMatrix
    /\ mb = 0
    /\ trialsByMiniBlock = <<>>
    /\ reordered = 0

GenIdle ==
    /\ attempt = 0
    /\ validated = FALSE
    /\ result = NoMatrix
    /\ warned = FALSE
    /\ permuteCall = [fn |-> "none"]

\* a call of generateMiniBlocks()
Init ==
    /\ pc = "genLoop"
    /\ GenIdle
    /\ SeqIdle
    /\ WheelIdle
    /\ ViewIdle

Next == GenerateAttempt \/ GenerateFallback

Spec == Init /\ [][Next]_vars

\* a call of generateTrialSequence() with the default argument
SeqInit ==
    /\ pc = "seqStart"
    /\ GenIdle
    /\ numMiniBlocks = defaultNumMiniBlocks
    /\ miniBlockMatrix = NoMatrix
    /\ mb = 0
    /\ trialsByMiniBlock = <<>>
    /\ reordered = 0
    /\ WheelIdle
    /\ ViewIdle

SeqNext == SeqGenerateMatrix \/ SeqBuildMiniBlock \/ SeqReturn

SpecSeq == SeqInit /\ [][SeqNext]_vars

\* a call of generateTrialSequence(N) with N greater than the 5 columns
LongInit ==
    /\ pc = "seqStart"
    /\ GenIdle
    /\ numMiniBlocks \in (defaultNumMiniBlocks + 1) .. MaxNumMiniBlocks
    /\ miniBlockMatrix = NoMatrix
    /\ mb = 0
    /\ trialsByMiniBlock = <<>>
    /\ reordered = 0
    /\ WheelIdle
    /\ ViewIdle

SpecLong == LongInit /\ [][SeqNext]_vars

\* The matrices applyColumnPermutation is called with here: the matrices the
\* row loop builds around an unshuffled first row, the fallback matrix, and
\* the matrices of four equal rows.
PermuteMatrices ==
    {[row \in Rows |-> IF row = 0 THEN RowOutcomes(0) ELSE IF row = 1 THEN r1
                       ELSE IF row = 2 THEN r2 ELSE r3] :
        r1 \in ShuffledRows(1), r2 \in ShuffledRows(2), r3 \in ShuffledRows(3)}
    \cup {fallbackMatrix}
    \cup {[row \in Rows |-> binaryRow] : binaryRow \in [Cols -> {0, 1}]}

\* a call of applyColumnPermutation(matrix, permutation)
ApplyColumnPermutation ==
    /\ pc = "permuteCall"
    /\ permuteCall.fn = "pending"
    /\ LET arrays == applyColumnPermutationRun(permuteCall.matrix, permuteCall.permutation)
       IN  permuteCall' = [fn          |-> "applyColumnPermutation",
                           matrix      |-> permuteCall.matrix,
                           permutation |-> permuteCall.permutation,
                           result      |-> arrays.result,
                           matrixAfter |-> arrays.matrix]
    /\ UNCHANGED <<pc, attempt, validated, result, warned, seqVars, uiVars>>

\* applyColumnPermutation about to be called with a matrix and a permutation
PermuteInit ==
    /\ pc = "permuteCall"
    /\ attempt = 0
    /\ validated = FALSE
    /\ result = NoMatrix
    /\ warned = FALSE
    /\ \E matrix \in PermuteMatrices, permutation \in ColumnPermutations :
         permuteCall = [fn |-> "pending", matrix |-> matrix, permutation |-> permutation]
    /\ SeqIdle
    /\ WheelIdle
    /\ ViewIdle

PermuteNext == ApplyColumnPermutation

SpecPermute == PermuteInit /\ [][PermuteNext]_vars

\* The matrices the two validators are called with: every matrix the row loop
\* builds, the matrices of PermuteMatrices, and for each of the latter the
\* same matrix with a row less, a row more, one row an entry shorter, one row
\* an entry longer, and the last row made of two 2s.
ValidateInputs ==
    RowMatrices
    \cup PermuteMatrices
    \cup {[row \in 0 .. 2 |-> m[row]] : m \in PermuteMatrices}
    \cup {[row \in 0 .. 4 |-> m[IF row < 4 THEN row ELSE 3]] : m \in PermuteMatrices}
    \cup {[m EXCEPT ![r] = [i \in 0 .. 3 |-> m[r][i]]] : m \in PermuteMatrices, r \in Rows}
    \cup {[m EXCEPT ![r] = [i \in 0 .. 5 |-> IF i < 5 THEN m[r][i] ELSE 0]] :
             m \in PermuteMatrices, r \in Rows}
    \cup {[m EXCEPT ![3] = [i \in Cols |-> IF i < 2 THEN 2 ELSE 0]] : m \in PermuteMatrices}

\* a call of validateMiniBlocks(matrix)
ValidateMiniBlocks ==
    /\ pc = "helperCall"
    /\ permuteCall.fn = "pending"
    /\ permuteCall.callee = "validateMiniBlocks"
    /\ permuteCall' = [fn       |-> "validateMiniBlocks",
                       matrix   |-> permuteCall.matrix,
                       returned |-> validateMiniBlocks(permuteCall.matrix)]
    /\ UNCHANGED <<pc, attempt, validated, result, warned, seqVars, uiVars>>

\* a call of the test script's validateMatrix(matrix)
ValidateMatrix ==
    /\ pc = "helperCall"
    /\ permuteCall.fn = "pending"
    /\ permuteCall.callee = "validateMatrix"
    /\ permuteCall' = [fn       |-> "validateMatrix",
                       matrix   |-> permuteCall.matrix,
                       returned |-> validateMatrix(permuteCall.matrix)]
    /\ UNCHANGED <<pc, attempt, validated, result, warned, seqVars, uiVars>>

\* a call of shuffleArray(array) with the Math.random() values `draws`; the
\* loop writes to the copy `shuffled` only.  swaps[i] is the j of iteration i.
ShuffleArray ==
    /\ pc = "helperCall"
    /\ permuteCall.fn = "pending"
    /\ permuteCall.callee = "shuffleArray"
    /\ permuteCall' = [fn         |-> "shuffleArray",
                       array      |-> permuteCall.array,
                       swaps      |-> [i \in DOMAIN permuteCall.draws |->
                                         FloorRandomTimes(permuteCall.draws[i], i + 1)],
                       returned   |-> shuffleArray(permuteCall.array, permuteCall.draws),
                       arrayAfter |-> permuteCall.array]
    /\ UNCHANGED <<pc, attempt, validated, result, warned, seqVars, uiVars>>

\* a call of generatePermutation(n) with the Math.random() values `draws`
GeneratePermutation ==
    /\ pc = "helperCall"
    /\ permuteCall.fn = "pending"
    /\ permuteCall.callee = "generatePermutation"
    /\ permuteCall' = [fn       |-> "generatePermutation",
                       n        |-> permuteCall.n,
                       swaps    |-> [i \in DOMAIN permuteCall.draws |->
                                       FloorRandomTimes(permuteCall.draws[i], i + 1)],
                       returned |-> generatePermutation(permuteCall.n, permuteCall.draws)]
    /\ UNCHANGED <<pc, attempt, validated, result, warned, seqVars, uiVars>>

\* One iteration of the shuffle loop of createBaseWheelPattern(probability):
\* seededRandom() draws, j is taken from the value and the elements at i and
\* j are exchanged.  `product` is random * 9301 + 49297 before the `%`, as
\* hi * 10^9 + lo; `at` is the i of the iteration.
SeededShuffleStep ==
    /\ pc = "helperCall"
    /\ permuteCall.fn = "createBaseWheelPattern"
    /\ permuteCall.i > 0
    /\ LET r == permuteCall.random
           i == permuteCall.i
           hundreds == r * 93
           low == (hundreds % 10000000) * 100 + r + 49297
           next == nextRandom(r)
           j == seededIndex(next, i)
       IN  permuteCall' = [permuteCall EXCEPT
                              !.random = next,
                              !.product = [hi |-> hundreds \div 10000000 + low \div 1000000000,
                                           lo |-> low % 1000000000],
                              !.at = i,
                              !.j = j,
                              !.segments = Swap(permuteCall.segments, i, j),
                              !.i = i - 1]
    /\ UNCHANGED <<pc, attempt, validated, result, warned, seqVars, uiVars>>

\* one of the functions of the script about to be called with its arguments
HelpersInit ==
    /\ pc = "helperCall"
    /\ attempt = 0
    /\ validated = FALSE
    /\ result = NoMatrix
    /\ warned = FALSE
    /\ \/ \E callee \in {"validateMiniBlocks", "validateMatrix"}, matrix \in ValidateInputs :
            permuteCall = [fn |-> "pending", callee |-> callee, matrix |-> matrix]
       \/ \E array \in {RowOutcomes(row) : row \in Rows}
                         \cup {[i \in 0 .. (n - 1) |-> 10 + i] : n \in 0 .. numCols} :
            \E draws \in RandomDraws(ArrayLen(array)) :
              permuteCall = [fn |-> "pending", callee |-> "shuffleArray",
                             array |-> array, draws |-> draws]
       \/ \E n \in 0 .. numCols : \E draws \in RandomDraws(n) :
            permuteCall = [fn |-> "pending", callee |-> "generatePermutation",
                           n |-> n, draws |-> draws]
       \/ \E probability \in WheelProbabilities :
            permuteCall = [fn |-> "createBaseWheelPattern", probability |-> probability,
                           i |-> totalSegments - 1,
                           random |-> closureRandom(probability, 0),
                           product |-> [hi |-> 0, lo |-> 0], at |-> totalSegments, j |-> 0,
                           segments |-> baseSegments(probability)]
    /\ SeqIdle
    /\ WheelIdle
    /\ ViewIdle

HelpersNext ==
    \/ ValidateMiniBlocks
    \/ ValidateMatrix
    \/ ShuffleArray
    \/ GeneratePermutation
    \/ SeededShuffleStep

SpecHelpers == HelpersInit /\ [][HelpersNext]_vars

\* generateTrialSequence() at the head of its loop, generateMiniBlocks()
\* having returned one of ViewMatrices
OrdersInit ==
    /\ pc = "seqLoop"
    /\ GenIdle
    /\ numMiniBlocks = defaultNumMiniBlocks
    /\ miniBlockMatrix \in ViewMatrices
    /\ mb = 0
    /\ trialsByMiniBlock = <<>>
    /\ reordered = 0
    /\ WheelIdle
    /\ ViewIdle

OrdersNext == SeqBuildAnyOrder \/ SeqReturn

SpecOrders == OrdersInit /\ [][OrdersNext]_vars

\* createBaseWheelPattern and generateSegments called in any order
PatternInit ==
    /\ pc = "patternCalls"
    /\ GenIdle
    /\ SeqIdle
    /\ WheelIdle
    /\ ViewIdle

PatternNext == PatternCall \/ RenderCall

SpecPattern == PatternInit /\ [][PatternNext]_vars

\* a wheel mounted with any props, before its landing angle is computed
WheelInit ==
    /\ pc = "wheelMounted"
    /\ GenIdle
    /\ SeqIdle
    /\ firstCall = NoCall
    /\ ViewIdle
    /\ \E probability \in WheelProbabilities, wheelIndex \in WheelIndices,
          outcome \in BOOLEAN :
         /\ lastCall = MountedWheel(probability, wheelIndex, outcome)
         /\ random = patternRandom(probability, 0)

WheelNext == RotationCall \/ RotationVariantCall

SpecWheel == WheelInit /\ [][WheelNext]_vars

\* the experiment view, mounted
ViewInit ==
    /\ pc = "view"
    /\ GenIdle
    /\ SeqIdle
    /\ WheelIdle
    /\ ViewIdle

ViewNext ==
    \/ InitializeExperiment
    \/ StartExperiment
    \/ HandleWheelChoice
    \/ ProceedToApproval
    \/ ProceedToConfidence
    \/ HandleConfidenceRating
    \/ ProceedToSpin
    \/ WheelTimeout
    \/ TransitionEnd
    \/ ToggleAnimations
    \/ CompleteCurrentTrial
    \/ HandleAgencySatisfaction
    \/ CompleteAgencySatisfaction
    \/ HandleNoAgencySatisfaction
    \/ CompleteNoAgencySatisfaction

SpecView == ViewInit /\ [][ViewNext]_vars

\* the view with the scheduling of its wheel: a timeout that was set fires,
\* and a transition that runs ends with transitionend.  The timeout's step is
\* given by what tells it from every other step (the pending timer is gone
\* and the spin phase goes on), which is enabled exactly when WheelTimeout is.
SpecViewFair ==
    /\ ViewInit
    /\ [][ViewNext]_vars
    /\ WF_timerPending(/\ pc = "view" /\ phase = "spin" /\ timerPending
                       /\ timerPending' = FALSE /\ phase' = "spin")
    /\ WF_spinWheelVars(TransitionEnd)

\* the mounted view with its autofill hook and its Download Results button
ToolsNext == ViewNext \/ Autofill \/ DownloadResults

SpecTools == ViewInit /\ [][ToolsNext]_vars



---------------------------------------------------------------------------
(* generateMiniBlocks: properties, checked under Spec *)

RowSumsHold(matrix) == \A r \in 0 .. 3 : ArraySum(matrix[r]) = r + 1
ColumnSumsHold(matrix) == \A c \in 0 .. 4 : ColumnSum(matrix, c) \in {1, 2, 3}

\* C1: every matrix generateMiniBlocks returns, the fallback after 1000
\* failed attempts included, has row r summing to r+1 for r in 0..3.
C1_ReturnedRowSums == pc = "genReturned" => RowSumsHold(result)

\* C2: every matrix generateMiniBlocks returns, the fallback after 1000
\* failed attempts included, has each of its 5 column sums in {1,2,3}.
C2_ReturnedColumnSums == pc = "genReturned" => ColumnSumsHold(result)

\* C3: the hardcoded fallback matrix, when it is what generateMiniBlocks
\* returns, has row r summing to r+1, every column sum in {1,2,3}, and
\* passes validateMiniBlocks.
C3_FallbackMatrixValid ==
    (pc = "genReturned" /\ result = fallbackMatrix) =>
        /\ RowSumsHold(fallbackMatrix)
        /\ ColumnSumsHold(fallbackMatrix)
        /\ validateMiniBlocks(fallbackMatrix)

\* C4: generateMiniBlocks ends in a return, never in an error; when all 1000
\* attempts failed it returns exactly the fallback matrix, and the fallback
\* matrix is returned only then: a validated attempt returns its candidate.
C4_FallbackIffAllAttemptsFail ==
    /\ pc \in {"genLoop", "genReturned"}
    /\ pc = "genReturned" =>
         /\ attempt = maxAttempts => result = fallbackMatrix /\ ~validated
         /\ result = fallbackMatrix => attempt = maxAttempts /\ ~validated
         /\ validated => result \in CandidateMatrices /\ validateMiniBlocks(result)

C4_Witness ==
    pc = "genReturned" /\ attempt = maxAttempts /\ result = fallbackMatrix

\* C5: generateMiniBlocks terminates: the attempt counter never passes 1000,
\* every step that stays in the loop is a failed attempt that raises the
\* counter by one, a validated attempt returns at once without another
\* attempt, the loop can always take a step, and nothing follows the return.
C5_BoundedAttempts ==
    /\ [](/\ attempt \in 0 .. maxAttempts
          /\ validated => pc = "genReturned"
          /\ pc = "genLoop" => ENABLED Next)
    /\ [][/\ pc = "genLoop"
          /\ pc' = "genLoop" =>
                attempt < maxAttempts /\ attempt' = attempt + 1 /\ ~validated'
          /\ pc' = "genReturned" =>
                /\ attempt' = attempt
                /\ validated' <=> attempt < maxAttempts]_vars

\* the 1000th attempt is the first one that validates
C5_Witness ==
    pc = "genReturned" /\ validated /\ attempt = maxAttempts - 1

\* C6: console.warn is called if and only if the fallback matrix is returned;
\* a run that returns a validated candidate warns nowhere.
C6_WarnIffFallback ==
    /\ pc = "genLoop" => ~warned
    /\ pc = "genReturned" => (warned <=> result = fallbackMatrix)
    /\ validated => ~warned

C6_Witness == pc = "genReturned" /\ warned /\ ~validated

---------------------------------------------------------------------------
(* generateTrialSequence: properties, checked under SpecSeq *)

\* the positions of a 4-trial block holding tier t
TierPositions(block, t) == {i \in DOMAIN block : block[i].probability = probabilities[t]}

BlockHasEachTierOnce(block) ==
    /\ DOMAIN block = 0 .. 3
    /\ {block[i].probability : i \in DOMAIN block} = {20, 40, 60, 80}
    /\ \A t \in 0 .. 3 : Cardinality(TierPositions(block, t)) = 1

\* C7: generateTrialSequence(5) returns 5 pairs numbered 1..5 in order, and
\* in each pair the agency block and the no-agency block hold 4 trials, one
\* for each of the tiers 0.2, 0.4, 0.6, 0.8 (8 per mini-block, 40 in all).
C7_FivePairsOfFourTiers ==
    (pc = "seqReturned" /\ numMiniBlocks = 5) =>
        /\ Len(trialsByMiniBlock) = 5
        /\ \A k \in 1 .. 5 :
             /\ trialsByMiniBlock[k].miniBlockNumber = k
             /\ BlockHasEachTierOnce(trialsByMiniBlock[k].agencyBlock)
             /\ BlockHasEachTierOnce(trialsByMiniBlock[k].noAgencyBlock)

C7_Witness ==
    /\ pc = "seqReturned"
    /\ Len(trialsByMiniBlock) = 5
    /\ trialsByMiniBlock[5].agencyBlock[0].probability = 80
    /\ trialsByMiniBlock[5].noAgencyBlock[0].probability = 20

\* C8: for every mini-block and tier, the agency trial and the no-agency
\* trial of that tier have the same outcomeWin, which is
\* (miniBlockMatrix[tier][mb] === 1), wherever the shuffles put them.
C8_PairedOutcomes ==
    pc = "seqReturned" =>
        \A k \in 1 .. Len(trialsByMiniBlock) : \A t \in 0 .. 3 :
            \A i \in TierPositions(trialsByMiniBlock[k].agencyBlock, t) :
            \A j \in TierPositions(trialsByMiniBlock[k].noAgencyBlock, t) :
                /\ trialsByMiniBlock[k].agencyBlock[i].outcomeWin
                     = trialsByMiniBlock[k].noAgencyBlock[j].outcomeWin
                /\ trialsByMiniBlock[k].agencyBlock[i].outcomeWin
                     = (miniBlockMatrix[t][k - 1] = 1)

\* the two blocks of a mini-block differ in order, and position 0 holds
\* different outcomes in them
C8_Witness ==
    /\ pc = "seqReturned"
    /\ \E k \in 1 .. Len(trialsByMiniBlock) :
         /\ trialsByMiniBlock[k].agencyBlock[0].probability
              # trialsByMiniBlock[k].noAgencyBlock[0].probability
         /\ trialsByMiniBlock[k].agencyBlock[0].outcomeWin
              # trialsByMiniBlock[k].noAgencyBlock[0].outcomeWin

\* the mini-blocks in which the trial of tier t of the named block wins
AgencyWins(t) ==
    {k \in 1 .. Len(trialsByMiniBlock) :
        \E i \in TierPositions(trialsByMiniBlock[k].agencyBlock, t) :
            trialsByMiniBlock[k].agencyBlock[i].outcomeWin}
NoAgencyWins(t) ==
    {k \in 1 .. Len(trialsByMiniBlock) :
        \E i \in TierPositions(trialsByMiniBlock[k].noAgencyBlock, t) :
            trialsByMiniBlock[k].noAgencyBlock[i].outcomeWin}

\* C9: in every result of generateTrialSequence(5), tier t (0..3) wins in
\* exactly t+1 of its 5 agency trials and in exactly t+1 of its 5 no-agency
\* trials.
C9_ExactWinCounts ==
    (pc = "seqReturned" /\ numMiniBlocks = 5) =>
        \A t \in 0 .. 3 :
            /\ Cardinality(AgencyWins(t)) = t + 1
            /\ Cardinality(NoAgencyWins(t)) = t + 1

\* C10: every trial's agency flag mirrors its block type and its block, and
\* its miniBlock field is the miniBlockNumber of the pair holding it.
C10_FlagsMirrorBlock ==
    \A k \in 1 .. Len(trialsByMiniBlock) : \A i \in 0 .. 3 :
        LET pair == trialsByMiniBlock[k]
        IN  /\ pair.agencyBlock[i].agency = TRUE
            /\ pair.agencyBlock[i].blockType = "agency"
            /\ pair.agencyBlock[i].miniBlock = pair.miniBlockNumber
            /\ pair.noAgencyBlock[i].agency = FALSE
            /\ pair.noAgencyBlock[i].blockType = "noAgency"
            /\ pair.noAgencyBlock[i].miniBlock = pair.miniBlockNumber

C10_Witness ==
    /\ pc = "seqReturned"
    /\ reordered > 0
    /\ \E k \in 1 .. Len(trialsByMiniBlock) :
         /\ trialsByMiniBlock[k].miniBlockNumber = 5
         /\ ~trialsByMiniBlock[k].noAgencyBlock[0].agency
         /\ trialsByMiniBlock[k].noAgencyBlock[0].probability = 80


---------------------------------------------------------------------------
(* Claims on the wheel pattern and the landing angle *)

TrueCount(pattern) == Cardinality({i \in DOMAIN pattern : pattern[i] = TRUE})

\* the isWin values of rendered segments, by segment index
ShownPattern(segments) == [i \in DOMAIN segments |-> segments[i].isWin]

\* C11: createBaseWheelPattern(p) returns exactly 40 booleans of which
\* exactly round(p*40) are true: 8, 16, 24 and 32 for the four tiers.
C11_PatternCounts ==
    lastCall.fn = "createBaseWheelPattern" =>
        /\ DOMAIN lastCall.pattern = 0 .. 39
        /\ \A i \in DOMAIN lastCall.pattern : lastCall.pattern[i] \in BOOLEAN
        /\ 100 * TrueCount(lastCall.pattern) - 50 <= 40 * lastCall.probability
        /\ 40 * lastCall.probability < 100 * TrueCount(lastCall.pattern) + 50
        /\ lastCall.probability = 20 => TrueCount(lastCall.pattern) = 8
        /\ lastCall.probability = 40 => TrueCount(lastCall.pattern) = 16
        /\ lastCall.probability = 60 => TrueCount(lastCall.pattern) = 24
        /\ lastCall.probability = 80 => TrueCount(lastCall.pattern) = 32

C11_Witness ==
    /\ lastCall.fn = "createBaseWheelPattern"
    /\ lastCall.probability = 60
    /\ TrueCount(lastCall.pattern) = 24
    /\ lastCall.pattern # baseSegments(60)

\* C12: every createBaseWheelPattern call for a probability returns the
\* sequence the first call for that probability returned, whatever calls,
\* for the same or other probabilities, came before it.
C12_PatternDeterministic ==
    (firstCall.fn # "none" /\ lastCall.fn # "none"
        /\ lastCall.probability = firstCall.probability) =>
        /\ lastCall.fn = "createBaseWheelPattern" =>
               lastCall.pattern = firstCall.pattern
        /\ lastCall.fn = "generateSegments" =>
               \A w \in WheelIndices :
                   ShownPattern(lastCall.wheels[w]) = firstCall.pattern

\* a call for 0.2 that follows a call for 0.8, after a first call for 0.2
C12_Witness ==
    /\ firstCall.fn # "none"
    /\ firstCall.probability = 20
    /\ lastCall.fn = "createBaseWheelPattern"
    /\ lastCall.probability = 20
    /\ lastCall.previous = patternRandom(80, 0)
    /\ lastCall.previous # patternRandom(20, 0)

\* C13: the wheels rendered with wheelIndex 0, 1 and 2 for one probability
\* have the same isWin at every segment index, and wheel k's segment i
\* starts 120*k degrees after wheel 0's segment i.
C13_SamePatternRotated ==
    lastCall.fn = "generateSegments" =>
        \A w \in WheelIndices : \A i \in 0 .. 39 :
            /\ lastCall.wheels[w][i].isWin = lastCall.wheels[0][i].isWin
            /\ lastCall.wheels[w][i].angle = lastCall.wheels[0][i].angle + 120 * w

C13_Witness ==
    /\ lastCall.fn = "generateSegments"
    /\ lastCall.probability = 40
    /\ lastCall.wheels[2][5].angle = 195
    /\ lastCall.wheels[0][5].angle = -45
    /\ \E i \in 0 .. 39, h \in 0 .. 39 :
         lastCall.wheels[1][i].isWin /\ ~lastCall.wheels[1][h].isWin

\* C14: whatever the two random draws, getOutcomeRotation picks a defined
\* segment index and returns index*9 + offset + 120*wheelIndex (+ 720 when
\* animated) with 0 <= offset < 9, an angle at which the pointer lies in
\* the span of a segment of that wheel whose isWin is the desired outcome.
C14_LandsOnOutcome ==
    /\ lastCall.fn = "mounted" =>
           \A k \in WheelRandomValues :
               targetSegmentIndex(createBaseWheelPattern(lastCall.probability, random),
                                  lastCall.outcome, k, WheelRandomGrid) \in 0 .. 39
    /\ lastCall.fn \in {"getOutcomeRotation", "getOutcomeRotationVariant"} =>
           /\ lastCall.index \in 0 .. 39
           /\ LET offset == lastCall.rotation
                              - (lastCall.index * 9 + 120 * lastCall.wheelIndex
                                 + (IF lastCall.withExtraSpins THEN 720 ELSE 0))
                                * WheelRandomGrid
              IN 0 <= offset /\ offset < 9 * WheelRandomGrid
           /\ lastCall.segments[pointedSegment(lastCall.segments, lastCall.rotation,
                                               WheelRandomGrid)].isWin
                  = lastCall.outcome

\* the last losing segment of the 0.8 wheel, on wheel 2, at the largest offset
C14_Witness ==
    /\ lastCall.fn = "getOutcomeRotation"
    /\ lastCall.probability = 80
    /\ lastCall.wheelIndex = 2
    /\ lastCall.outcome = FALSE
    /\ lastCall.draw = WheelRandomGrid - 1
    /\ lastCall.offset = WheelRandomGrid - 1
    /\ \A i \in 0 .. 39 : i > lastCall.index => lastCall.segments[i].isWin

---------------------------------------------------------------------------
(* Claims on the experiment view *)

\* C15: whenever the outcome is revealed in the spin phase, the pointer, at
\* the rotation the wheel displays, lies in a segment whose isWin is the
\* trial's outcomeWin.
C15_RevealedPointerMatches ==
    (phase = "spin" /\ spinComplete) =>
        spinSegments[pointedSegment(spinSegments, displayedRotation, RandomGrid)].isWin
            = spinOutcome

\* the trial of the generated sequence at a position
PersistedTrial(m, subBlock, position) ==
    IF subBlock = "agency"
    THEN persist.trialsByMiniBlock[m].agencyBlock[position]
    ELSE persist.trialsByMiniBlock[m].noAgencyBlock[position]

\* the indices of the results recorded for a position
ResultsAt(m, subBlock, position) ==
    {r \in 1 .. Len(results) :
        /\ results[r].miniBlock = m
        /\ results[r].subBlock = subBlock
        /\ results[r].trialInSubBlock = position}

IsTrialRecord(rec) == "probability" \in DOMAIN rec

\* C17: no trial is ever recorded twice, and in phase 'complete' results
\* holds exactly 40 records, one for every (mini-block, block, position) of
\* trialsByMiniBlock, each holding that trial, and api.recordData was called
\* with exactly these records, once each.
C17_EachTrialRecordedOnce ==
    /\ \A m \in 1 .. 5 : \A subBlock \in {"agency", "noAgency"} : \A position \in 0 .. 3 :
           Cardinality(ResultsAt(m, subBlock, position)) <= 1
    /\ phase = "complete" =>
           /\ Len(results) = 40
           /\ \A m \in 1 .. 5 : \A subBlock \in {"agency", "noAgency"} :
                  \A position \in 0 .. 3 :
                      /\ Cardinality(ResultsAt(m, subBlock, position)) = 1
                      /\ \A r \in ResultsAt(m, subBlock, position) :
                             LET trial == PersistedTrial(m, subBlock, position)
                             IN  /\ results[r].probability = trial.probability
                                 /\ results[r].outcomeWin = trial.outcomeWin
                                 /\ results[r].agency = trial.agency
                                 /\ results[r].blockType = trial.blockType
           /\ SelectSeq(recorded, IsTrialRecord) = results

C17_Witness ==
    /\ phase = "complete"
    /\ Len(results) = 40
    /\ Len(recorded) = 50

\* one step of the view along the designed path
PhaseStep ==
    phase' # phase =>
        \/ phase = "instructions" /\ phase' = "choice"
        \/ phase = "choice" /\ phase' = "approval"
        \/ phase = "approval" /\ phase' = "confidence"
        \/ phase = "confidence" /\ phase' = "spin"
        \/ phase = "spin" /\ phase' = "choice" /\ currentTrialInSubBlock \in 0 .. 2
        \/ /\ phase = "spin" /\ phase' = "agencySatisfaction"
           /\ currentTrialInSubBlock = 3 /\ currentSubBlock = "agency"
        \/ /\ phase = "spin" /\ phase' = "noAgencySatisfaction"
           /\ currentTrialInSubBlock = 3 /\ currentSubBlock = "noAgency"
        \/ phase = "agencySatisfaction" /\ phase' = "choice"
        \/ phase = "noAgencySatisfaction" /\ phase' = "choice" /\ currentMiniBlock < 4
        \/ phase = "noAgencySatisfaction" /\ phase' = "complete" /\ currentMiniBlock = 4

\* C18: the phase changes only along instructions -> choice -> approval ->
\* confidence -> spin, from spin back to choice after trials 1-3 of a block
\* and to the block's satisfaction phase after the 4th, from agency
\* satisfaction to choice, and from no-agency satisfaction to choice or,
\* after the last mini-block, to complete; nothing leaves complete and
\* nothing enters instructions.
C18_PhasePath == [][PhaseStep]_vars

C18_Witness ==
    /\ phase = "complete"
    /\ currentMiniBlock = 5
    /\ currentSubBlock = "noAgency"

\* C19: in approval, confidence and spin a wheel 0..2 is selected, in spin
\* a confidence rating is set, and every record in results has non-null
\* selectedWheel, isApproved and confidenceRating.
C19_NoProceedingWithoutInput ==
    /\ phase \in {"approval", "confidence", "spin"} =>
           selectedWheel \in {Some(w) : w \in 0 .. 2}
    /\ phase = "spin" => confidenceRating # Null
    /\ \A r \in 1 .. Len(results) :
           /\ results[r].selectedWheel \in {Some(w) : w \in 0 .. 2}
           /\ results[r].isApproved # Null
           /\ results[r].confidenceRating # Null

\* wheel 2 and the rating 0 in the spin phase, and a recorded trial after it
C19_Witness ==
    /\ phase = "spin"
    /\ Len(results) = 1
    /\ results[1].selectedWheel = Some(2)
    /\ results[1].confidenceRating = Some(0)
    /\ confidenceRating # Null

ApprovedResults == {r \in 1 .. Len(results) : results[r].isApproved = Some(TRUE)}
VetoedResults == {r \in 1 .. Len(results) : results[r].isApproved = Some(FALSE)}

\* C20: the approval shown and recorded is the trial's agency flag, true
\* exactly in the agency block; at completion 20 trials are approved and
\* 20 vetoed, and every (mini-block, tier) has one approved and one vetoed
\* trial, with the same outcomeWin.
C20_ApprovalFollowsBlock ==
    /\ phase \in {"approval", "confidence", "spin"} =>
           /\ isApproved = Some(currentTrialData.agency)
           /\ currentTrialData.agency <=> (currentSubBlock = "agency")
    /\ \A r \in 1 .. Len(results) :
           /\ results[r].isApproved = Some(results[r].agency)
           /\ results[r].agency <=> (results[r].subBlock = "agency")
    /\ phase = "complete" =>
           /\ Cardinality(ApprovedResults) = 20
           /\ Cardinality(VetoedResults) = 20
           /\ \A m \in 1 .. 5 : \A tier \in {20, 40, 60, 80} :
                  \E a \in ApprovedResults : \E v \in VetoedResults :
                      /\ results[a].miniBlock = m /\ results[a].probability = tier
                      /\ results[v].miniBlock = m /\ results[v].probability = tier
                      /\ results[a].outcomeWin = results[v].outcomeWin
                      /\ \A r \in ApprovedResults \cup VetoedResults :
                             (results[r].miniBlock = m /\ results[r].probability = tier)
                                 => r \in {a, v}

\* a finished run with an approved loss and a vetoed win in it
C20_Witness ==
    /\ phase = "complete"
    /\ \E a \in ApprovedResults : ~results[a].outcomeWin
    /\ \E v \in VetoedResults : results[v].outcomeWin

---------------------------------------------------------------------------
(* Claims on autofill and downloadResults (specification SpecTools) *)

\* C21: in development or presentation mode a call of the registered
\* autofill function ends without raising an error and leaves every trial
\* of the experiment recorded in results.
C21_AutofillCompletes ==
    (toolCall.fn = "autofill" /\ autofillEnabled(toolCall.mode)) =>
        /\ toolCall.thrown = "none"
        /\ Len(results) = totalTrials

\* C22: downloadResults in phase complete ends without raising an error and
\* produces an export object whose trials are the recorded results, whose
\* miniBlocks is the generated 4x5 matrix and whose
\* summary.averageSatisfaction is a number in 0..100.
C22_ExportHoldsTheData ==
    toolCall.fn = "downloadResults" =>
        /\ toolCall.thrown = "none"
        /\ toolCall.exportData # Null
        /\ ValueOf(toolCall.exportData).trials = results
        /\ ValueOf(toolCall.exportData).miniBlocks = persist.miniBlockMatrix
        /\ toolCall.summary.averageSatisfaction # NaN
        /\ ValueOf(toolCall.summary.averageSatisfaction)
               \in 0 .. (ratingMax * toolCall.summary.completedTrials)

---------------------------------------------------------------------------
(* Claims on the view's bookkeeping (specification SpecView) *)

\* C23: once initializeExperiment has run, no handler of the view and no
\* render or callback of the wheel changes the persisted trialsByMiniBlock
\* or miniBlockMatrix.
C23_SequenceReadOnly == [][Initialized => persist' = persist]_vars

\* a trial was completed with the animation switched off in the spin phase
C23_Witness ==
    /\ Initialized
    /\ Len(results) > trialsPerMiniBlock
    /\ phase = "spin"
    /\ ~animationsEnabled
    /\ timerPending

---------------------------------------------------------------------------
(* Claims on the block orders (specification SpecOrders) *)

\* the tier index of the trial at each position of a block
blockOrder(block) ==
    [i \in DOMAIN block |->
        CHOOSE probIndex \in DOMAIN probabilities :
            probabilities[probIndex] = block[i].probability]

\* the (agency order, no-agency order) combinations over the results the
\* iteration for mini-block m can push
OrderCombinations(matrix, m) ==
    {<<blockOrder(pair.agencyBlock), blockOrder(pair.noAgencyBlock)>> :
        pair \in {miniBlockPair(matrix, m, agencyOrder, noAgencyOrder) :
                     agencyOrder \in AllShuffleOrders, noAgencyOrder \in AllShuffleOrders}}

\* C24: the two blocks of a mini-block are ordered by two independent
\* shuffles: for every mini-block each of the 24 x 24 combinations of
\* (agency order, no-agency order) is a result of the iteration, and the
\* pair that was pushed shows each block in an order of its own.
C24_OrdersIndependent ==
    /\ (pc = "seqLoop" /\ SeqLoopGuard(mb, numMiniBlocks) /\ reordered = 0) =>
          /\ OrderCombinations(miniBlockMatrix, mb) = AllShuffleOrders \X AllShuffleOrders
          /\ Cardinality(OrderCombinations(miniBlockMatrix, mb)) = 24 * 24
    /\ \A k \in 1 .. Len(trialsByMiniBlock) :
          /\ blockOrder(trialsByMiniBlock[k].agencyBlock) \in AllShuffleOrders
          /\ blockOrder(trialsByMiniBlock[k].noAgencyBlock) \in AllShuffleOrders

\* the fourth mini-block was pushed with two different changed orders
C24_Witness ==
    /\ pc = "seqReturned"
    /\ blockOrder(trialsByMiniBlock[4].agencyBlock) = ShuffleOrder(5)
    /\ blockOrder(trialsByMiniBlock[4].noAgencyBlock) = ShuffleOrder(17)
    /\ blockOrder(trialsByMiniBlock[5].noAgencyBlock) = ShuffleOrder(0)

\* C25 as claimed: in every state after the start, completedTrialsCount
\* equals results.length and progress is at most 100.
C25_ProgressInEveryState ==
    phase # "instructions" =>
        /\ completedTrialsCount = Len(results)
        /\ progress <= 100 * totalTrials

\* C25 as amended: after the start and before phase complete,
\* completedTrialsCount equals results.length; progress is at most 100 as
\* long as a trial is left to run (the progress bar is shown in phase choice).
C25_ProgressConsistent ==
    /\ (phase # "instructions" /\ phase # "complete") =>
          completedTrialsCount = Len(results)
    /\ (phase # "instructions" /\ Len(results) < totalTrials) =>
          progress <= 100 * totalTrials
    /\ phase = "choice" => Len(results) < totalTrials

\* the last trial is on the choice screen, the bar at 100
C25_Witness ==
    /\ phase = "choice"
    /\ selectedWheel # Null
    /\ Len(results) = totalTrials - 1
    /\ progress = 100 * totalTrials

\* C26: trials are recorded in block order: the n-th record belongs to
\* mini-block (n-1) div 8 + 1, to the agency block when it is among the first
\* four of its mini-block and to the no-agency block otherwise, at position
\* (n-1) mod 4, and its miniBlock and subBlock are the generated trial's
\* miniBlock and block type.
C26_RecordedInBlockOrder ==
    \A n \in 1 .. Len(results) :
        LET rec == results[n]
            m == (n - 1) \div trialsPerMiniBlock
            subBlock == IF (n - 1) % trialsPerMiniBlock < trialsPerSubBlock
                        THEN "agency" ELSE "noAgency"
            position == (n - 1) % trialsPerSubBlock
            block == IF subBlock = "agency"
                     THEN persist.trialsByMiniBlock[m + 1].agencyBlock
                     ELSE persist.trialsByMiniBlock[m + 1].noAgencyBlock
        IN  /\ rec.miniBlock = m + 1
            /\ rec.subBlock = subBlock
            /\ rec.trialInSubBlock = position
            /\ rec.miniBlock = block[position].miniBlock
            /\ rec.subBlock = block[position].blockType
            /\ rec.blockType = block[position].blockType
            /\ rec.probability = block[position].probability

\* the last trial of the last no-agency block has been recorded
C26_Witness ==
    /\ Len(results) = totalTrials
    /\ results[totalTrials].miniBlock = defaultNumMiniBlocks
    /\ results[totalTrials].subBlock = "noAgency"
    /\ results[totalTrials].trialInSubBlock = trialsPerSubBlock - 1
    /\ results[trialsPerSubBlock].subBlock = "agency"

---------------------------------------------------------------------------
(* Claims on the spin phase (specification SpecViewFair) *)

\* the spin phase is entered with animations disabled
EntersSpinWithoutAnimation ==
    phase = "confidence" /\ phase' = "spin" /\ ~animationsEnabled

\* animations are switched off in the spin phase
SwitchedOffMidSpin == phase = "spin" /\ animationsEnabled /\ ~animationsEnabled'

\* a step of the spin phase that is not completeCurrentTrial
StaysInSpin == phase = "spin" /\ phase' = "spin"

\* the refs the spin phase's completion depends on
spinVars == <<phase, animationsEnabled, spinComplete>>

\* C27: after proceedToSpin, spinComplete eventually becomes true, given
\* that the wheel's timeout and transitionend fire.  It is true at once when
\* the spin phase is entered with animations disabled and when animations
\* are switched off mid-spin, and once true it stays true, with the wheel
\* at rest, until completeCurrentTrial leaves the spin phase.
C27_SpinReveals ==
    /\ [][/\ EntersSpinWithoutAnimation => spinComplete'
          /\ SwitchedOffMidSpin => spinComplete'
          /\ (StaysInSpin /\ spinComplete) => spinComplete']_spinVars
    /\ []((phase = "spin" /\ spinComplete) => (~isWheelSpinning /\ ~transitionRunning))
    /\ (phase = "spin") ~> (phase = "spin" /\ spinComplete)

\* the animation of a later trial ran to its end
C27_Witness ==
    /\ phase = "spin"
    /\ spinComplete
    /\ animationsEnabled
    /\ ~timerPending
    /\ Len(results) >= trialsPerSubBlock

---------------------------------------------------------------------------
(* Claims on the mount handler and the indices (specification SpecView) *)

\* C28: the choice phase is never entered before initializeExperiment has
\* set the persisted trialsByMiniBlock, in whatever order the mount
\* handler's continuation and the Start Experiment click run.
C28_ChoiceAfterInitialization == phase = "choice" => Initialized

\* the phases that show a trial
TrialPhases == {"choice", "approval", "confidence", "spin"}

\* the three indices name a position of the 5 x 2 x 4 layout
IndicesInRange ==
    /\ currentMiniBlock \in 0 .. (defaultNumMiniBlocks - 1)
    /\ currentSubBlock \in {"agency", "noAgency"}
    /\ currentTrialInSubBlock \in 0 .. (trialsPerSubBlock - 1)

\* currentTrialData reads an element that exists
TrialExists ==
    /\ (currentMiniBlock + 1) \in DOMAIN persist.trialsByMiniBlock
    /\ currentTrialInSubBlock \in
          DOMAIN (IF currentSubBlock = "agency"
                  THEN persist.trialsByMiniBlock[currentMiniBlock + 1].agencyBlock
                  ELSE persist.trialsByMiniBlock[currentMiniBlock + 1].noAgencyBlock)

\* the indices run past the end only where no trial is shown
PastTheEndOnlyBetweenTrials ==
    /\ (phase \in TrialPhases \/ phase = "instructions") => IndicesInRange
    /\ currentTrialInSubBlock >= trialsPerSubBlock =>
          phase \in {"agencySatisfaction", "noAgencySatisfaction", "complete"}
    /\ currentMiniBlock >= defaultNumMiniBlocks => phase = "complete"

\* C29: whenever a trial is shown (phase choice, approval, confidence or
\* spin) currentMiniBlock is in 0..4, currentSubBlock is agency or noAgency
\* and currentTrialInSubBlock is in 0..3, so that currentTrialData refers to
\* an existing trial; 4 for currentTrialInSubBlock and 5 for currentMiniBlock
\* occur only in the satisfaction and complete phases.
C29_TrialIndicesInRange ==
    /\ phase \in TrialPhases => (IndicesInRange /\ TrialExists)
    /\ PastTheEndOnlyBetweenTrials

\* column i of a matrix, as the values of its rows
columnOf(matrix, i) == [j \in DOMAIN matrix |-> matrix[j][i]]

\* how many columns of the matrix are equal to column
columnCount(matrix, column) == Cardinality({i \in Cols : columnOf(matrix, i) = column})

Permuted == permuteCall.fn = "applyColumnPermutation"

\* C30: applyColumnPermutation(matrix, perm) gives result[j][i] =
\* matrix[j][perm[i]] for every row j and column i, so it keeps every row
\* sum, the multiset of columns and the column sums, and it leaves the
\* matrix it was given as it was.
C30_SameReorderingInEveryRow ==
    Permuted =>
        /\ \A j \in Rows : \A i \in Cols :
              permuteCall.result[j][i] = permuteCall.matrix[j][permuteCall.permutation[i]]
        /\ \A j \in Rows : ArraySum(permuteCall.result[j]) = ArraySum(permuteCall.matrix[j])
        /\ \A column \in [Rows -> {0, 1}] :
              columnCount(permuteCall.result, column) = columnCount(permuteCall.matrix, column)
        /\ \A total \in 0 .. numRows :
              Cardinality({i \in Cols : ArraySum(columnOf(permuteCall.result, i)) = total})
                 = Cardinality({i \in Cols : ArraySum(columnOf(permuteCall.matrix, i)) = total})
        /\ permuteCall.matrixAfter = permuteCall.matrix

\* a matrix of five different columns was permuted with a permutation that
\* moves every column, two of them in a cycle longer than a swap
C30_Witness ==
    /\ Permuted
    /\ \A i \in Cols : permuteCall.permutation[i] # i
    /\ \E i \in Cols : permuteCall.permutation[permuteCall.permutation[i]] # i
    /\ \A i, k \in Cols :
          i # k => columnOf(permuteCall.matrix, i) # columnOf(permuteCall.matrix, k)
    /\ permuteCall.result # permuteCall.matrix

\* the matrix is an array of 4 rows of 5 entries
HasShape(matrix) ==
    /\ DOMAIN matrix = Rows
    /\ \A r \in Rows : DOMAIN matrix[r] = Cols

\* what the two validators are to accept
Acceptable(matrix) ==
    /\ HasShape(matrix)
    /\ RowSumsHold(matrix)
    /\ \A c \in Cols : ArraySum(columnOf(matrix, c)) \notin {0, 4}

\* C31: validateMiniBlocks(matrix) returns true exactly when the matrix has
\* 4 rows of 5 entries, row r sums to r+1 and no column sums to 0 or 4, and
\* false otherwise; validateMatrix of the test script returns the same.
C31_ValidatorsAcceptTheSame ==
    permuteCall.fn \in {"validateMiniBlocks", "validateMatrix"} =>
        /\ permuteCall.returned = Acceptable(permuteCall.matrix)
        /\ permuteCall.returned = validateMiniBlocks(permuteCall.matrix)
        /\ permuteCall.returned = validateMatrix(permuteCall.matrix)

\* validateMiniBlocks has rejected a matrix of the right shape and the right
\* row sums for a column of sum 4 alone
C31_Witness ==
    /\ permuteCall.fn = "validateMiniBlocks"
    /\ ~permuteCall.returned
    /\ HasShape(permuteCall.matrix)
    /\ RowSumsHold(permuteCall.matrix)
    /\ \E c \in Cols : ArraySum(columnOf(permuteCall.matrix, c)) = 4
    /\ \A c \in Cols : ArraySum(columnOf(permuteCall.matrix, c)) # 0

\* the index of the trial's probability in `probabilities`
tierOf(trial) == CHOOSE probIndex \in DOMAIN probabilities : probabilities[probIndex] = trial.probability

\* the trials of both blocks of the pair
TrialsOfPair(pair) ==
    {pair.agencyBlock[i] : i \in DOMAIN pair.agencyBlock}
        \cup {pair.noAgencyBlock[i] : i \in DOMAIN pair.noAgencyBlock}

\* C32: generateTrialSequence(N) with N > 5 returns N mini-block pairs; every
\* trial of mini-blocks 6..N, in both blocks and for all four tiers, has
\* outcomeWin = false, and the trials of mini-blocks 1..5 have the outcome of
\* their tier's row in the matrix column of their mini-block.
C32_MiniBlocksPastTheMatrixLose ==
    /\ pc = "seqReturned" => Len(trialsByMiniBlock) = numMiniBlocks
    /\ \A m \in DOMAIN trialsByMiniBlock :
         /\ trialsByMiniBlock[m].miniBlockNumber = m
         /\ BlockHasEachTierOnce(trialsByMiniBlock[m].agencyBlock)
         /\ BlockHasEachTierOnce(trialsByMiniBlock[m].noAgencyBlock)
         /\ \A trial \in TrialsOfPair(trialsByMiniBlock[m]) :
              /\ trial.outcomeWin \in BOOLEAN
              /\ m > numCols => ~trial.outcomeWin
              /\ m <= numCols =>
                    trial.outcomeWin = (miniBlockMatrix[tierOf(trial)][m - 1] = 1)

\* generateTrialSequence(7) has returned: mini-blocks 6 and 7 hold eight
\* losses each, next to a mini-block of the matrix that holds a win
C32_Witness ==
    /\ pc = "seqReturned"
    /\ numMiniBlocks = MaxNumMiniBlocks
    /\ Len(trialsByMiniBlock) = MaxNumMiniBlocks
    /\ \A m \in (numCols + 1) .. MaxNumMiniBlocks :
          \A trial \in TrialsOfPair(trialsByMiniBlock[m]) : ~trial.outcomeWin
    /\ \E m \in 1 .. numCols :
          \E trial \in TrialsOfPair(trialsByMiniBlock[m]) : trial.outcomeWin

\* the api.recordData calls that sent the rating `field` of mini-block m
SatisfactionRecords(field, m) ==
    {r \in DOMAIN recorded : field \in DOMAIN recorded[r] /\ recorded[r].miniBlock = m}

\* the satisfaction screen of the block has been left
AgencyBlockRated(m) ==
    \/ m <= currentMiniBlock
    \/ m = currentMiniBlock + 1 /\ currentSubBlock = "noAgency" /\ phase # "complete"
NoAgencyBlockRated(m) == m <= currentMiniBlock

\* one record for each block that was rated, none for the others, each
\* holding a rating
OneRecordPerRatedBlock ==
    /\ \A r \in DOMAIN recorded : recorded[r].miniBlock \in 1 .. defaultNumMiniBlocks
    /\ \A m \in 1 .. defaultNumMiniBlocks :
         /\ Cardinality(SatisfactionRecords("agencySatisfaction", m))
               = IF AgencyBlockRated(m) THEN 1 ELSE 0
         /\ Cardinality(SatisfactionRecords("noAgencySatisfaction", m))
               = IF NoAgencyBlockRated(m) THEN 1 ELSE 0
         /\ \A r \in SatisfactionRecords("agencySatisfaction", m) :
               recorded[r].agencySatisfaction # Null
         /\ \A r \in SatisfactionRecords("noAgencySatisfaction", m) :
               recorded[r].noAgencySatisfaction # Null

\* outside its own screen a rating is null (the last one stays on the
\* complete screen), so a satisfaction screen opens without a rating
NoRatingCarriedOver ==
    /\ phase # "agencySatisfaction" => agencySatisfaction = Null
    /\ phase \notin {"noAgencySatisfaction", "complete"} => noAgencySatisfaction = Null

\* a step that leaves a satisfaction screen: the rating is set and is sent
\* with the number of the mini-block
LeavesWithItsRating ==
    /\ (phase = "agencySatisfaction" /\ phase' # phase) =>
          /\ agencySatisfaction # Null
          /\ recorded' = Append(recorded, [miniBlock |-> currentMiniBlock + 1,
                                           agencySatisfaction |-> agencySatisfaction])
    /\ (phase = "noAgencySatisfaction" /\ phase' # phase) =>
          /\ noAgencySatisfaction # Null
          /\ recorded' = Append(recorded, [miniBlock |-> currentMiniBlock + 1,
                                           noAgencySatisfaction |-> noAgencySatisfaction])
    /\ (phase' = "agencySatisfaction" /\ phase # phase') => agencySatisfaction' = Null
    /\ (phase' = "noAgencySatisfaction" /\ phase # phase') => noAgencySatisfaction' = Null

\* C33: a satisfaction phase is left only with a non-null rating, exactly one
\* satisfaction record is sent to api.recordData for each block (10 at
\* completion, an agencySatisfaction and a noAgencySatisfaction one for each
\* mini-block 1..5, tagged with its number), and a satisfaction phase never
\* opens with the rating of an earlier block.
C33_SatisfactionOncePerBlock ==
    /\ [][LeavesWithItsRating]_vars
    /\ [](OneRecordPerRatedBlock /\ NoRatingCarriedOver)
    /\ [](phase = "complete" =>
            Len(SelectSeq(recorded, LAMBDA rec : ~IsTrialRecord(rec))) = 2 * defaultNumMiniBlocks)

\* the experiment is complete and the ten ratings were sent
C33_Witness ==
    /\ phase = "complete"
    /\ \A m \in 1 .. defaultNumMiniBlocks :
          /\ Cardinality(SatisfactionRecords("agencySatisfaction", m)) = 1
          /\ Cardinality(SatisfactionRecords("noAgencySatisfaction", m)) = 1

\* no response of a trial is held
TrialStateReset ==
    /\ selectedWheel = Null
    /\ confidenceRating = Null
    /\ isApproved = Null
    /\ ~spinComplete

\* C34: completeCurrentTrial resets selectedWheel, confidenceRating and
\* isApproved to null and spinComplete to false, and every time the choice
\* phase is entered the four hold these values; they stay so between the
\* trials, and in the choice phase only selectedWheel is set.
C34_NoResponseLeaks ==
    /\ [][/\ (phase = "spin" /\ phase' # "spin") => TrialStateReset'
          /\ (phase # "choice" /\ phase' = "choice") => TrialStateReset']_vars
    /\ [](phase \in {"instructions", "agencySatisfaction", "noAgencySatisfaction", "complete"}
            => TrialStateReset)
    /\ [](phase = "choice" => (confidenceRating = Null /\ isApproved = Null /\ ~spinComplete))

\* the choice screen of a later trial has just opened: the trial before it
\* was recorded with a wheel, an approval and a rating, and none is held now
C34_Witness ==
    /\ phase = "choice"
    /\ Len(results) > 0
    /\ results[Len(results)].selectedWheel # Null
    /\ results[Len(results)].confidenceRating # Null
    /\ results[Len(results)].isApproved # Null
    /\ TrialStateReset

\* a step that changes selectedWheel is a click on a wheel of the choice
\* screen, or the step that records the trial with the wheel held until then
\* and resets it
ChoiceChangesOnlyByClickOrRecord ==
    selectedWheel' # selectedWheel =>
        \/ /\ phase = "choice"
           /\ phase' = "choice"
           /\ \E wheelIndex \in WheelIndices : selectedWheel' = Some(wheelIndex)
        \/ /\ phase = "spin"
           /\ phase' # "spin"
           /\ selectedWheel' = Null

\* Confirm Choice takes the wheel clicked last as it is
ConfirmKeepsTheChoice ==
    (phase = "choice" /\ phase' = "approval") =>
        (selectedWheel # Null /\ selectedWheel' = selectedWheel)

\* the step that records a trial records the wheel held through the trial
RecordsTheChoice ==
    results' # results =>
        /\ Len(results') = Len(results) + 1
        /\ results'[Len(results')].selectedWheel = selectedWheel
        /\ recorded'[Len(recorded')].selectedWheel = selectedWheel
        /\ selectedWheel # Null

\* C35: selectedWheel changes only in the choice phase, by a click; from
\* proceedToApproval until the trial is recorded it keeps the value of the
\* last click, the spin-phase wheel has that wheelIndex, and that value is
\* the selectedWheel of the trial record.
C35_ChoiceFrozenOnceConfirmed ==
    /\ [][ChoiceChangesOnlyByClickOrRecord /\ ConfirmKeepsTheChoice /\ RecordsTheChoice]_vars
    /\ [](phase \in {"approval", "confidence", "spin"} => selectedWheel # Null)
    /\ [](phase = "spin" => spinWheelIndex = ValueOf(selectedWheel))

\* the second trial spins the wheel chosen for it, another one than the
\* wheel recorded for the first trial
C35_Witness ==
    /\ phase = "spin"
    /\ Len(results) = 1
    /\ selectedWheel # Null
    /\ spinWheelIndex = ValueOf(selectedWheel)
    /\ spinWheelIndex # 0
    /\ results[1].selectedWheel # selectedWheel

\* how many entries of the array hold v
Occurrences(a, v) == Cardinality({i \in DOMAIN a : a[i] = v})

\* b holds the elements of a, each as often as a does, at the same indices
IsRearrangement(a, b) ==
    /\ DOMAIN b = DOMAIN a
    /\ \A i \in DOMAIN a : Occurrences(b, a[i]) = Occurrences(a, a[i])

\* every swap index of the loop is within 0..i
SwapsInRange(swaps) == \A i \in DOMAIN swaps : swaps[i] \in 0 .. i

MaxSafeProduct == [hi |-> 9007199, lo |-> 254740992]

\* the product is at most 2^53
ProductIsExact(product) ==
    \/ product.hi < MaxSafeProduct.hi
    \/ product.hi = MaxSafeProduct.hi /\ product.lo <= MaxSafeProduct.lo

\* product mod 233280, with 10^9 mod 233280 = 161920
ProductMod(product) == (product.hi * 161920 + product.lo) % 233280

Drawn == permuteCall.fn = "createBaseWheelPattern" /\ permuteCall.i < totalSegments - 1

\* C37: in createBaseWheelPattern, from the seed floor(p * 1000), the state
\* after every draw is (state * 9301 + 49297) mod 233280, an integer in
\* 0..233279; the product before the mod is at most 2^53; the value
\* state / 233280 is in [0, 1); and the swap index floor(value * (i + 1)) is
\* in 0..i for i from 39 down to 1.
C37_SeededGeneratorInRange ==
    permuteCall.fn = "createBaseWheelPattern" =>
        /\ permuteCall.random \in 0 .. 233279
        /\ permuteCall.i \in 0 .. (totalSegments - 1)
        /\ ~Drawn => permuteCall.random = (permuteCall.probability * 1000) \div 100
        /\ Drawn =>
              /\ ProductIsExact(permuteCall.product)
              /\ permuteCall.random = ProductMod(permuteCall.product)
              /\ permuteCall.at = permuteCall.i + 1
              /\ permuteCall.j = (permuteCall.random * (permuteCall.at + 1)) \div 233280
              /\ permuteCall.j \in 0 .. permuteCall.at
              /\ TrueCount(permuteCall.segments) = winSegments(permuteCall.probability)
        /\ permuteCall.i = 0 =>
              permuteCall.segments = createBaseWheelPattern(permuteCall.probability, 0)

\* a draw of createBaseWheelPattern whose product is above 2^31 and whose
\* swap index is the largest one, j = i
C37_Witness ==
    /\ Drawn
    /\ permuteCall.product.hi = 2
    /\ permuteCall.product.lo > 147483647
    /\ permuteCall.j = permuteCall.at
    /\ permuteCall.random > 0

===========================================================================
